---- MODULE Spec2Model ----
(***************************************************************************)
(* Cloudlint-AI: the YAML validation and suggestion engine.                *)
(*                                                                         *)
(*   src/src/lib/yaml-validator.ts    validateYAML and its linter          *)
(*   src/src/lib/yaml-ai-service.ts   YAMLAIService.analyzeYAML            *)
(*   src/src/lib/yaml-json-converter.ts   YAMLJSONConverter                *)
(*                                                                         *)
(* A text is a sequence of characters over a small alphabet that holds     *)
(* every character class the code distinguishes: space, tab, line feed,    *)
(* the comment sign and one ordinary character.  The YAML parser (js-yaml  *)
(* load) is an external library: its answer for the text under analysis is *)
(* an input of the model (parseOutcome), either a parsed value or a thrown *)
(* fault, and every call of load on that text within one run sees the same *)
(* answer.                                                                 *)
(***************************************************************************)
EXTENDS Integers, Sequences, FiniteSets, TLC

VARIABLES
    yamlText,        \* the text handed to the engine
    parseOutcome,    \* what load(yamlText) does: a value or a thrown fault
    contentMarks,    \* which of the substrings the regexes look for occur in yamlText
    openaiApiKey,    \* YAMLAIService.openaiApiKey: TRUE when a key is configured
    advisoryFault,   \* TRUE when the advisory provider's call throws
    op,              \* the last engine call made on the input ("none" before any)
    lastValidation,  \* the ValidationResult of the last validateYAML call
    lastAnalysis,    \* the AIAnalysisResult of the last analyzeYAML call
    scoreKinds,      \* the suggestion kinds handed to calculateConfidenceScore
    lastScore,       \* the score it returned
    synthSuggestions, \* the suggestions handed to generateImprovedYaml
    lastImproved,    \* the text it returned
    options,         \* the ConversionOptions handed to the converter
    jsonOutcome,     \* what JSON.parse(yamlText) does, for jsonToYAML
    dumpOutcome,     \* what the serializer (JSON.stringify, dump) does
    lastConversion,  \* the ConversionResult of the last converter call
    parserInvoked,   \* TRUE when the last call invoked load
    regexLastIndex,  \* lastIndex of the /g regexes after the last call's tests
    history,         \* the calls made so far on one service instance
    tabInsert,       \* an edit of yamlText: a tab inserted at an offset
    lastLint,        \* checkStructuralIssues before and after the edit
    lastYaml,        \* the ConversionResult of jsonToYAML on yamlToJSON's text
    reparsed,        \* what load returns for jsonToYAML's text
    component,       \* the useState values of the mounted component
    timers,          \* the pending setTimeout callbacks, oldest first
    awaiting,        \* the handler suspended at `await yamlAI.analyzeYAML`
    observed         \* what the timers did since the last user event

vars == <<yamlText, parseOutcome, contentMarks, openaiApiKey, advisoryFault, op,
          lastValidation, lastAnalysis, scoreKinds, lastScore,
          synthSuggestions, lastImproved, options, jsonOutcome, dumpOutcome,
          lastConversion, parserInvoked, regexLastIndex, history,
          tabInsert, lastLint, lastYaml, reparsed,
          component, timers, awaiting, observed>>

----------------------------------------------------------------------------
(* Bounds *)

MaxLen == 3

MaxKinds == 3

MaxSuggestions == 2

MaxCalls == 3

----------------------------------------------------------------------------
(* Optional values: undefined is <<>>, a present value v is <<v>>. *)

None == <<>>

Some(v) == <<v>>

----------------------------------------------------------------------------
(* Strings as character sequences, with the JavaScript string methods the  *)
(* code uses.                                                              *)

SP == " "

TAB == "\t"

LF == "\n"

Alphabet == {SP, TAB, LF, "#", "a"}

Texts == UNION {[1..n -> Alphabet] : n \in 0..MaxLen}

IsWs(c) == c \in {SP, TAB, LF}

RECURSIVE trimStart(_)
trimStart(s) ==
    IF s = <<>> THEN s
    ELSE IF IsWs(Head(s)) THEN trimStart(Tail(s)) ELSE s

RECURSIVE trimEnd(_)
trimEnd(s) ==
    IF s = <<>> THEN s
    ELSE IF IsWs(s[Len(s)]) THEN trimEnd(SubSeq(s, 1, Len(s) - 1)) ELSE s

trim(s) == trimEnd(trimStart(s))

includes(s, c) == \E i \in 1..Len(s) : s[i] = c

\* String.indexOf for one character: 0-based, -1 when absent
indexOf(s, c) ==
    IF includes(s, c)
    THEN (CHOOSE i \in 1..Len(s) : s[i] = c /\ \A j \in 1..(i - 1) : s[j] # c) - 1
    ELSE -1

startsWith(s, p) == Len(s) >= Len(p) /\ SubSeq(s, 1, Len(p)) = p

\* String.split('\n'): always at least one line
RECURSIVE split(_)
split(s) ==
    IF ~includes(s, LF) THEN <<s>>
    ELSE LET i == indexOf(s, LF)
         IN  <<SubSeq(s, 1, i)>> \o split(SubSeq(s, i + 2, Len(s)))

\* Array.join('\n')
RECURSIVE join(_)
join(ls) ==
    IF Len(ls) = 0 THEN <<>>
    ELSE IF Len(ls) = 1 THEN ls[1]
    ELSE ls[1] \o <<LF>> \o join(Tail(ls))

----------------------------------------------------------------------------
(* The parser's answers.                                                   *)
(*                                                                         *)
(* A parsed value is undefined (an empty document), a scalar, an array or  *)
(* a record.  A record lists its own keys in insertion order: the named    *)
(* entries, then `plain` further lower-case keys with scalar values.  A     *)
(* JavaScript object never holds a key twice, so every record here has      *)
(* distinct keys.                                                           *)

Undefined == [t |-> "undefined"]

\* the YAML null (~)
Null == [t |-> "null"]

Scalar == [t |-> "scalar"]

Array == [t |-> "array"]

Rec(entries, plain) == [t |-> "record", entries |-> entries, plain |-> plain]

Entry(k, v) == [key |-> k, val |-> v]

PlainKeyNames == <<"k1", "k2", "k3", "k4", "k5", "k6", "k7", "k8", "k9", "k10", "k11">>

ParsedValues ==
    { Undefined, Null, Scalar, Array,
      Rec(<<>>, 0),
      Rec(<<Entry("version", Scalar)>>, 0),
      Rec(<<Entry("userName", Scalar)>>, 0),
      Rec(<<Entry("apiVersion", Scalar)>>, 1),
      Rec(<<Entry("version", Scalar),
            Entry("spec", Rec(<<Entry("userName", Scalar)>>, 0))>>, 0),
      Rec(<<Entry("userName", Scalar),
            Entry("spec", Rec(<<Entry("hostName", Scalar)>>, 1))>>, 0),
      Rec(<<Entry("version", Scalar)>>, 9),
      Rec(<<Entry("version", Scalar)>>, 10),
      Rec(<<>>, 11) }

Parsed(v) == [t |-> "parsed", value |-> v]

\* A thrown fault: a js-yaml YAMLException (reason, mark) or any other error.
\* A reason is a sequence of fragments of its text, cut so that each keyword
\* the code searches for is a fragment of its own; <<>> is a missing reason.
Thrown(isYaml, mark, reason) ==
    [t |-> "thrown", yamlException |-> isYaml, mark |-> mark, reason |-> reason]

Mark(l, c) == [line |-> l, column |-> c]

Marks == {None} \cup {Some(Mark(l, c)) : l \in 0..1, c \in 0..1}

Reasons ==
    { <<>>,
      <<"bad ", "indent", "ation of a ", "mapping", " entry">>,
      <<"Bad ", "Indent", "ation of a ", "sequence", " entry">>,
      <<"MAPPING", " values are not allowed here">>,
      <<"unexpected end of the stream within a double ", "quote", "d scalar">> }

Faults ==
    {Thrown(TRUE, m, r) : m \in Marks, r \in Reasons}
        \cup {Thrown(FALSE, None, <<>>)}

ParseOutcomes == {Parsed(v) : v \in ParsedValues} \cup Faults

\* What js-yaml can answer for a text.  A text without an ordinary character
\* holds only white space and comments: it is an empty document, and load
\* returns undefined.  A run of ordinary characters can hold any YAML, so any
\* answer is possible for the other texts.
PossibleOutcomes(text) ==
    IF ~includes(text, "a") THEN {Parsed(Undefined)} ELSE ParseOutcomes

\* load(text) of js-yaml, for the text under analysis
load(text, outcome) == outcome

----------------------------------------------------------------------------
(* src/src/lib/yaml-validator.ts *)

ValidationError(type, line, column, message, suggestion) ==
    [type |-> type, line |-> line, column |-> column,
     message |-> message, suggestion |-> suggestion]

isRecord(value) == value.t = "record"

\* Object.keys(obj)
ObjectKeys(obj) ==
    [i \in 1..Len(obj.entries) |-> obj.entries[i].key]
        \o SubSeq(PlainKeyNames, 1, obj.plain)

\* The text a key is searched as: the key followed by a colon
KeyText(key) == <<key, ":">>

RECURSIVE findKeyLineFrom(_, _, _)
findKeyLineFrom(key, lines, i) ==
    IF i > Len(lines) THEN 1
    ELSE IF startsWith(trim(lines[i]), KeyText(key)) THEN i
    ELSE findKeyLineFrom(key, lines, i + 1)

findKeyLineNumber(key, text) == findKeyLineFrom(key, split(text), 1)

\* mutant: the key is added to the seen set before it is tested
RECURSIVE dupKeysFrom_AddBeforeTest(_, _, _, _)
dupKeysFrom_AddBeforeTest(keys, i, seen, text) ==
    IF i > Len(keys) THEN <<>>
    ELSE (IF keys[i] \in (seen \cup {keys[i]})
          THEN <<ValidationError("structure", findKeyLineNumber(keys[i], text), 1,
                                 <<"Duplicate key", keys[i]>>,
                                 "Remove or rename the duplicate key")>>
          ELSE <<>>)
         \o dupKeysFrom_AddBeforeTest(keys, i + 1, seen \cup {keys[i]}, text)

RECURSIVE dupKeysFrom(_, _, _, _)
dupKeysFrom(keys, i, seen, text) ==
    IF i > Len(keys) THEN <<>>
    ELSE (IF keys[i] \in seen
          THEN <<ValidationError("structure", findKeyLineNumber(keys[i], text), 1,
                                 <<"Duplicate key", keys[i]>>,
                                 "Remove or rename the duplicate key")>>
          ELSE <<>>)
         \o dupKeysFrom(keys, i + 1, seen \cup {keys[i]}, text)

checkDuplicateKeys(obj, text) == dupKeysFrom(ObjectKeys(obj), 1, {}, text)

\* mutant: only a tab in the indentation of a line is reported
TabFinding_IndentationOnly(line, lineNumber) ==
    IF includes(SubSeq(line, 1, Len(line) - Len(trimStart(line))), TAB)
    THEN <<ValidationError("format", lineNumber, indexOf(line, TAB) + 1,
                           <<"YAML uses tabs instead of spaces for indentation">>,
                           "Replace tabs with spaces (2 or 4 spaces recommended)")>>
    ELSE <<>>

\* The three checks of one line, in the order the loop body makes them
TabFinding(line, lineNumber) ==
    IF includes(line, TAB)
    THEN <<ValidationError("format", lineNumber, indexOf(line, TAB) + 1,
                           <<"YAML uses tabs instead of spaces for indentation">>,
                           "Replace tabs with spaces (2 or 4 spaces recommended)")>>
    ELSE <<>>

TrailingFinding(line, lineNumber) ==
    IF Len(line) > 0 /\ line # trimEnd(line)
    THEN <<ValidationError("format", lineNumber, Len(trimEnd(line)) + 1,
                           <<"Line has trailing whitespace">>,
                           "Remove trailing spaces and tabs")>>
    ELSE <<>>

\* mutant: the parity of the indentation is not tested
IndentFinding_AnyIndent(line, lineNumber) ==
    LET trimmedLine == trim(line)
        indentation == Len(line) - Len(trimStart(line))
    IN  IF /\ Len(trimmedLine) > 0
           /\ ~startsWith(trimmedLine, <<"#">>)
           /\ indentation > 0
        THEN <<ValidationError("format", lineNumber, 1,
                   <<"Inconsistent indentation (should be even number of spaces)">>,
                   "Use consistent indentation (2 or 4 spaces)")>>
        ELSE <<>>

IndentFinding(line, lineNumber) ==
    LET trimmedLine == trim(line)
        indentation == Len(line) - Len(trimStart(line))
    IN  IF /\ Len(trimmedLine) > 0
           /\ ~startsWith(trimmedLine, <<"#">>)
           /\ indentation > 0
           /\ indentation % 2 # 0
        THEN <<ValidationError("format", lineNumber, 1,
                   <<"Inconsistent indentation (should be even number of spaces)">>,
                   "Use consistent indentation (2 or 4 spaces)")>>
        ELSE <<>>

\* mutant: the checks of a line stop at its first finding
LineFindings_FirstOnly(line, lineNumber) ==
    LET all == TabFinding(line, lineNumber)
                   \o TrailingFinding(line, lineNumber)
                   \o IndentFinding(line, lineNumber)
    IN  IF all = <<>> THEN <<>> ELSE <<all[1]>>

LineFindings(line, lineNumber) ==
    TabFinding(line, lineNumber)
        \o TrailingFinding(line, lineNumber)
        \o IndentFinding(line, lineNumber)

RECURSIVE lintFrom(_, _)
lintFrom(lines, i) ==
    IF i > Len(lines) THEN <<>>
    ELSE LineFindings(lines[i], i) \o lintFrom(lines, i + 1)

checkStructuralIssues(text, parsed) ==
    lintFrom(split(text), 1)
        \o (IF isRecord(parsed) THEN checkDuplicateKeys(parsed, text) ELSE <<>>)

\* String.includes on a reason: the keyword is one of its fragments
reasonIncludes(reason, word) == \E i \in 1..Len(reason) : reason[i] = word

getSyntaxSuggestion(reason) ==
    IF reasonIncludes(reason, "indent")
        THEN "Check your indentation - YAML uses spaces, not tabs"
    ELSE IF reasonIncludes(reason, "mapping")
        THEN "Check for missing colons (:) after keys"
    ELSE IF reasonIncludes(reason, "sequence")
        THEN "Check your list syntax - items should start with \"- \""
    ELSE IF reasonIncludes(reason, "quote") \/ reasonIncludes(reason, "string")
        THEN "Check for unmatched quotes or special characters in strings"
    ELSE "Please check your YAML syntax"

\* mutant: the text is returned as it is
formatYAML_Untrimmed(text, outcome) == text

formatYAML(text, outcome) ==
    IF load(text, outcome).t = "parsed" THEN trim(text) ELSE text

isYAMLException(error) == error.yamlException

\* mutant: the parser's 0-based mark is passed on
SyntaxError_ZeroBased(error) ==
    ValidationError("syntax",
        IF error.mark # None /\ error.mark[1].line # 0 THEN error.mark[1].line ELSE 1,
        IF error.mark # None /\ error.mark[1].column # 0 THEN error.mark[1].column ELSE 1,
        IF error.reason # <<>> THEN error.reason ELSE <<"YAML syntax error">>,
        getSyntaxSuggestion(error.reason))

SyntaxError(error) ==
    ValidationError("syntax",
        IF error.mark # None /\ error.mark[1].line # 0
            THEN error.mark[1].line + 1 ELSE 1,
        IF error.mark # None /\ error.mark[1].column # 0
            THEN error.mark[1].column + 1 ELSE 1,
        IF error.reason # <<>> THEN error.reason ELSE <<"YAML syntax error">>,
        getSyntaxSuggestion(error.reason))

ValidationResult(isValid, errors, formatted, originalYaml) ==
    [isValid |-> isValid, errors |-> errors,
     formatted |-> formatted, originalYaml |-> originalYaml]

\* the result for an empty input
EmptyInputResult(text) ==
    ValidationResult(FALSE,
        <<ValidationError("structure", 1, 1, <<"YAML input is empty">>,
                          "Please enter some YAML content to validate")>>,
        None, text)

\* the try block and its catch
ParseAndCheck(text, outcome) ==
    LET r == load(text, outcome)
    IN  IF r.t = "parsed"
        THEN LET structuralErrors == checkStructuralIssues(text, r.value)
             IN  IF Len(structuralErrors) = 0
                 THEN ValidationResult(TRUE, <<>>,
                                       Some(formatYAML(text, outcome)), text)
                 ELSE ValidationResult(FALSE, structuralErrors, None, text)
        ELSE IF isYAMLException(r)
        THEN ValidationResult(FALSE, <<SyntaxError(r)>>, None, text)
        ELSE ValidationResult(FALSE,
                 <<ValidationError("syntax", 1, 1, <<"Unknown YAML parsing error">>,
                                   "Please check your YAML syntax")>>,
                 None, text)

\* mutant: the input is tested without trimming it
validateYAML_UntrimmedTest(text, outcome) ==
    IF text = <<>> THEN EmptyInputResult(text) ELSE ParseAndCheck(text, outcome)

validateYAML(text, outcome) ==
    IF trim(text) = <<>> THEN EmptyInputResult(text) ELSE ParseAndCheck(text, outcome)

----------------------------------------------------------------------------
(* src/src/lib/yaml-ai-service.ts                                          *)
(*                                                                         *)
(* The ordinary character "a" stands for a run of ordinary characters.     *)
(* What the substring and regex tests of the service find in those runs is *)
(* given by contentMarks:                                                  *)
(*   "portString"  includes('port:') and includes('port: "')               *)
(*   "secret"      the lower-cased text includes 'password' or 'secret'    *)
(*   "urlOrIp"     urlRegex or ipRegex matches                             *)

ContentMarks == {"portString", "secret", "urlOrIp"}

AISuggestion(type, severity, line, column, message, improvedCode) ==
    [type |-> type, severity |-> severity, line |-> line, column |-> column,
     message |-> message, improvedCode |-> improvedCode]

\* line.replace(/\t/g, '  ')
RECURSIVE replaceTabs(_)
replaceTabs(s) ==
    IF s = <<>> THEN s
    ELSE (IF Head(s) = TAB THEN <<SP, SP>> ELSE <<Head(s)>>) \o replaceTabs(Tail(s))

\* '  '.repeat(n)
RECURSIVE repeatTwoSpaces(_)
repeatTwoSpaces(n) == IF n <= 0 THEN <<>> ELSE <<SP, SP>> \o repeatTwoSpaces(n - 1)

\* Math.ceil(n / 2) for n >= 0
ceilHalf(n) == (n + 1) \div 2

TabSuggestion(line, lineNumber) ==
    IF includes(line, TAB)
    THEN <<AISuggestion("formatting", "warning", Some(lineNumber),
                        Some(indexOf(line, TAB) + 1),
                        "Tabs detected in YAML indentation",
                        Some(replaceTabs(line)))>>
    ELSE <<>>

IndentSuggestion(line, lineNumber) ==
    LET indentation == Len(line) - Len(trimStart(line))
    IN  IF /\ indentation > 0
           /\ indentation % 2 # 0
           /\ ~startsWith(trim(line), <<"#">>)
        THEN <<AISuggestion("formatting", "suggestion", Some(lineNumber), Some(1),
                            "Inconsistent indentation detected",
                            Some(repeatTwoSpaces(ceilHalf(indentation))
                                    \o trimStart(line)))>>
        ELSE <<>>

TrailingSuggestion(line, lineNumber) ==
    IF line # trimEnd(line) /\ Len(trim(line)) > 0
    THEN <<AISuggestion("formatting", "info", Some(lineNumber),
                        Some(Len(trimEnd(line)) + 1),
                        "Trailing whitespace found",
                        Some(trimEnd(line)))>>
    ELSE <<>>

LineSuggestions(line, lineNumber) ==
    TabSuggestion(line, lineNumber)
        \o IndentSuggestion(line, lineNumber)
        \o TrailingSuggestion(line, lineNumber)

RECURSIVE formattingFrom(_, _)
formattingFrom(lines, i) ==
    IF i > Len(lines) THEN <<>>
    ELSE LineSuggestions(lines[i], i) \o formattingFrom(lines, i + 1)

\* /[a-z][A-Z]/.test(key), on the keys of ParsedValues
CamelCase(key) == key \in {"userName", "apiVersion", "hostName"}

\* `${kebabCase}: # or ${snakeCase}:` : one line, the renamed key and a comment
NamingFix(key) == <<key, ":", SP, "#">>

RECURSIVE namingFrom(_, _)
namingFrom(entries, i) ==
    IF i > Len(entries) THEN <<>>
    ELSE LET e == entries[i]
         IN  (IF CamelCase(e.key)
              THEN <<AISuggestion("naming", "suggestion", None, None,
                                  <<"camelCase key detected", e.key>>,
                                  Some(NamingFix(e.key)))>>
              ELSE <<>>)
             \o (IF isRecord(e.val) THEN namingFrom(e.val.entries, 1) ELSE <<>>)
             \o namingFrom(entries, i + 1)

\* The plain keys are lower-case and hold scalars: nothing to report for them
checkNamingConventions(obj) == namingFrom(obj.entries, 1)

\* key in obj
HasKey(obj, key) == \E i \in 1..Len(ObjectKeys(obj)) : ObjectKeys(obj)[i] = key

\* 'version: "1.0"\n' + yamlContent ; the first element is the added line's text
VersionLine == "version: \"1.0\""

\* mutant: the regex objects are kept between calls
NewRegExp_Shared == regexLastIndex

\* A regex literal with the g flag makes a new RegExp object each time it is
\* evaluated: its lastIndex
NewRegExp == 0

\* RegExp.test with the g flag on a text that holds one match when it is
\* marked: the search starts at lastIndex
RegexTest(lastIndex, marks) == "urlOrIp" \in marks /\ lastIndex = 0

\* lastIndex once test has returned: behind the match, or 0 when none is found
RegexAfterTest(lastIndex, marks) == IF RegexTest(lastIndex, marks) THEN 1 ELSE 0

checkBestPractices(obj, yamlContent, marks) ==
    (IF ~HasKey(obj, "version") /\ ~HasKey(obj, "apiVersion")
     THEN <<AISuggestion("best-practice", "suggestion", None, None,
                         "No version field found",
                         Some(<<VersionLine, LF>> \o yamlContent))>>
     ELSE <<>>)
    \o (IF RegexTest(NewRegExp, marks)
        THEN <<AISuggestion("best-practice", "info", None, None,
                            "Hardcoded URLs or IP addresses detected", None)>>
        ELSE <<>>)

getRuleBasedSuggestions(yamlContent, parsed, marks) ==
    formattingFrom(split(yamlContent), 1)
        \o (IF isRecord(parsed)
            THEN checkNamingConventions(parsed)
                    \o checkBestPractices(parsed, yamlContent, marks)
            ELSE <<>>)

\* The two replace calls change characters inside runs of ordinary characters
\* only: at the alphabet's granularity the text they return is yamlContent.
getMockAISuggestions(yamlContent, parsed, marks) ==
    (IF "portString" \in marks
     THEN <<AISuggestion("logical", "warning", None, None,
                         "Port number appears to be a string", Some(yamlContent))>>
     ELSE <<>>)
    \o (IF "secret" \in marks
        THEN <<AISuggestion("security", "warning", None, None,
                            "Potential sensitive data detected", Some(yamlContent))>>
        ELSE <<>>)
    \o (IF isRecord(parsed) /\ Len(ObjectKeys(parsed)) > 10
        THEN <<AISuggestion("best-practice", "suggestion", None, None,
                            "Large configuration file detected", None)>>
        ELSE <<>>)

\* What a call returns: a value, or a thrown fault
Returned(v) == [t |-> "returned", value |-> v]

\* The call of the advisory provider inside the try block: the provider's
\* answer, or its fault
AdvisoryCall(fault, yamlContent, parsed, marks) ==
    IF fault THEN Thrown(FALSE, None, <<>>)
    ELSE Returned(getMockAISuggestions(yamlContent, parsed, marks))

\* mutant: the provider's fault is not caught
getAISuggestions_NoCatch(apiKey, fault, yamlContent, parsed, marks) ==
    IF ~apiKey THEN Returned(<<>>)
    ELSE AdvisoryCall(fault, yamlContent, parsed, marks)

getAISuggestions(apiKey, fault, yamlContent, parsed, marks) ==
    IF ~apiKey THEN Returned(<<>>)
    ELSE LET r == AdvisoryCall(fault, yamlContent, parsed, marks)
         IN  IF r.t = "thrown" THEN Returned(<<>>) ELSE r

\* A string is truthy when it is set and not empty
Truthy(optText) == optText # None /\ optText[1] # <<>>

ApplySuggestion(improved, s) ==
    IF Truthy(s.improvedCode) /\ s.type = "formatting"
    THEN IF s.line # None /\ s.line[1] # 0
         THEN LET lines == split(improved)
                  k == s.line[1]
              IN  IF k <= Len(lines) /\ lines[k] # <<>>
                  THEN join([lines EXCEPT ![k] = s.improvedCode[1]])
                  ELSE improved
         ELSE improved
    ELSE IF Truthy(s.improvedCode) /\ s.type # "formatting"
    THEN s.improvedCode[1]
    ELSE improved

RECURSIVE applyFrom(_, _, _)
applyFrom(improved, suggestions, i) ==
    IF i > Len(suggestions) THEN improved
    ELSE applyFrom(ApplySuggestion(improved, suggestions[i]), suggestions, i + 1)

\* mutant: the suggestions are applied last to first
generateImprovedYaml_Reversed(original, suggestions) ==
    applyFrom(original,
              [i \in 1..Len(suggestions) |-> suggestions[Len(suggestions) + 1 - i]], 1)

generateImprovedYaml(original, suggestions) == applyFrom(original, suggestions, 1)

(* Confidence scores.  A weight is kept in hundredths (0.8 is 80), and a   *)
(* score is the fraction num/den of hundredths: [num |-> 100, den |-> 1]   *)
(* is 1.0, and the score of n suggestions has den = n, so that the average *)
(* totalWeight / n is exact.                                               *)

Kinds == {"formatting", "naming", "best-practice", "logical", "security"}

\* weights[s.type] || 0.5
Weight(kind) ==
    CASE kind = "formatting"    -> 80
      [] kind = "naming"        -> 60
      [] kind = "best-practice" -> 70
      [] kind = "logical"       -> 90
      [] kind = "security"      -> 95
      [] OTHER                  -> 50

RECURSIVE totalWeightFrom(_, _)
totalWeightFrom(kinds, i) ==
    IF i > Len(kinds) THEN 0
    ELSE Weight(kinds[i]) + totalWeightFrom(kinds, i + 1)

Score(num, den) == [num |-> num, den |-> den]

Max(a, b) == IF a >= b THEN a ELSE b

\* mutant: the score has no floor of 0.1
calculateConfidenceScore_NoFloor(kinds) ==
    IF Len(kinds) = 0 THEN Score(100, 1)
    ELSE Score(100 * Len(kinds) - totalWeightFrom(kinds, 1), Len(kinds))

\* on the kinds (s.type) of the suggestions, all the function reads
calculateConfidenceScore(kinds) ==
    IF Len(kinds) = 0 THEN Score(100, 1)
    ELSE LET totalWeight == totalWeightFrom(kinds, 1)
             maxPossibleWeight == Len(kinds)
         IN  Score(Max(10 * maxPossibleWeight,
                       100 * maxPossibleWeight - totalWeight),
                   maxPossibleWeight)

KindsOf(suggestions) == [i \in 1..Len(suggestions) |-> suggestions[i].type]

AIAnalysisResult(hasImprovements, suggestions, improvedYaml, confidenceScore) ==
    [hasImprovements |-> hasImprovements, suggestions |-> suggestions,
     improvedYaml |-> improvedYaml, confidenceScore |-> confidenceScore]

\* mutant: an improved text is produced for an empty suggestion list too
ImprovedYamlFor_Always(yamlContent, allSuggestions) ==
    Some(generateImprovedYaml(yamlContent, allSuggestions))

ImprovedYamlFor(yamlContent, allSuggestions) ==
    IF Len(allSuggestions) > 0
    THEN Some(generateImprovedYaml(yamlContent, allSuggestions))
    ELSE None

\* the result of the catch block
CaughtResult == AIAnalysisResult(FALSE, <<>>, None, Score(0, 1))

\* the try block, once load has returned `parsed`
AnalysisOf(apiKey, fault, yamlContent, parsed, marks) ==
    LET ruleBasedSuggestions == getRuleBasedSuggestions(yamlContent, parsed, marks)
        aiSuggestions ==
            IF apiKey
            THEN getAISuggestions(apiKey, fault, yamlContent, parsed, marks)
            ELSE Returned(<<>>)
    IN  IF aiSuggestions.t = "thrown" THEN CaughtResult
        ELSE LET allSuggestions == ruleBasedSuggestions \o aiSuggestions.value
             IN  AIAnalysisResult(Len(allSuggestions) > 0,
                                  allSuggestions,
                                  ImprovedYamlFor(yamlContent, allSuggestions),
                                  calculateConfidenceScore(KindsOf(allSuggestions)))

\* mutant: a rejected text is analysed as an empty document
analyzeYAML_IgnoreFault(apiKey, fault, yamlContent, outcome, marks) ==
    LET r == load(yamlContent, outcome)
    IN  AnalysisOf(apiKey, fault, yamlContent,
                   IF r.t = "parsed" THEN r.value ELSE Undefined, marks)

analyzeYAML(apiKey, fault, yamlContent, outcome, marks) ==
    LET r == load(yamlContent, outcome)
    IN  IF r.t = "parsed"
        THEN AnalysisOf(apiKey, fault, yamlContent, r.value, marks)
        ELSE CaughtResult

\* lastIndex of the regexes of checkBestPractices when analyzeYAML returns
\* (the regexes are made and tested only for a record)
RegexAfterAnalyze(yamlContent, outcome, marks, before) ==
    LET r == load(yamlContent, outcome)
    IN  IF r.t = "parsed" /\ isRecord(r.value)
        THEN RegexAfterTest(NewRegExp, marks)
        ELSE before

----------------------------------------------------------------------------
(* src/src/lib/yaml-json-converter.ts                                      *)
(*                                                                         *)
(* The serializers (JSON.stringify, js-yaml dump) and JSON.parse are       *)
(* library calls like load: what they do with the value at hand is an      *)
(* input (dumpOutcome, jsonOutcome), a returned text or a thrown fault.    *)

\* A thrown Error object that is not a YAMLException, by its name
ThrownError(name) ==
    [t |-> "thrown", yamlException |-> FALSE, mark |-> None, reason |-> <<>>,
     name |-> name]

\* error instanceof Error
instanceofError(error) == error.yamlException \/ "name" \in DOMAIN error

\* error.message
MessageOf(error) ==
    IF error.yamlException THEN <<"YAMLException">> \o error.reason
    ELSE <<error.name>>

\* error instanceof Error ? error.message : fallback
ErrorText(error, fallback) ==
    IF instanceofError(error) THEN MessageOf(error) ELSE <<fallback>>

ConversionResult(success, result, error) ==
    [success |-> success, result |-> result, error |-> error]

ConversionOptions(indent, skipInvalid, flowLevel, sortKeys) ==
    [indent |-> indent, skipInvalid |-> skipInvalid,
     flowLevel |-> flowLevel, sortKeys |-> sortKeys]

\* options = {}
DefaultOptions == ConversionOptions(None, None, None, None)

\* options.sortKeys is set and true
SortKeys(opts) == opts.sortKeys = Some(TRUE)

\* Object.keys(parsed as object) throws a TypeError for null
ObjectKeysThrows(parsed) == parsed = Null

\* mutant: an undefined document is serialized like any value
yamlToJSON_NoUndefinedTest(yamlContent, opts, outcome, serialized) ==
    IF trim(yamlContent) = <<>>
    THEN ConversionResult(FALSE, None, Some(<<"Input YAML is empty">>))
    ELSE LET r == load(yamlContent, outcome)
         IN  IF r.t = "thrown"
             THEN ConversionResult(FALSE, None,
                                   Some(ErrorText(r, "Unknown conversion error")))
             ELSE IF serialized.t = "thrown"
             THEN ConversionResult(FALSE, None,
                      Some(ErrorText(serialized, "Unknown conversion error")))
             ELSE ConversionResult(TRUE,
                      IF r.value = Undefined THEN None ELSE Some(serialized.value),
                      None)

yamlToJSON(yamlContent, opts, outcome, serialized) ==
    IF trim(yamlContent) = <<>>
    THEN ConversionResult(FALSE, None, Some(<<"Input YAML is empty">>))
    ELSE LET r == load(yamlContent, outcome)
         IN  IF r.t = "thrown"
             THEN ConversionResult(FALSE, None,
                                   Some(ErrorText(r, "Unknown conversion error")))
             ELSE IF r.value = Undefined
             THEN ConversionResult(FALSE, None,
                                   Some(<<"YAML content is empty or invalid">>))
             ELSE IF SortKeys(opts) /\ ObjectKeysThrows(r.value)
             THEN ConversionResult(FALSE, None,
                      Some(ErrorText(ThrownError("TypeError"),
                                     "Unknown conversion error")))
             ELSE IF serialized.t = "thrown"
             THEN ConversionResult(FALSE, None,
                      Some(ErrorText(serialized, "Unknown conversion error")))
             ELSE ConversionResult(TRUE, Some(serialized.value), None)

jsonToYAML(jsonContent, opts, parsedJson, serialized) ==
    IF trim(jsonContent) = <<>>
    THEN ConversionResult(FALSE, None, Some(<<"Input JSON is empty">>))
    ELSE IF parsedJson.t = "thrown"
    THEN ConversionResult(FALSE, None,
                          Some(ErrorText(parsedJson, "Unknown conversion error")))
    ELSE IF serialized.t = "thrown"
    THEN ConversionResult(FALSE, None,
                          Some(ErrorText(serialized, "Unknown conversion error")))
    ELSE ConversionResult(TRUE, Some(serialized.value), None)

\* YAMLJSONConverter.formatYAML (the validator has a formatYAML of its own)
ConverterFormatYAML(yamlContent, opts, outcome, serialized) ==
    LET r == load(yamlContent, outcome)
    IN  IF r.t = "thrown"
        THEN ConversionResult(FALSE, None, Some(ErrorText(r, "Failed to format YAML")))
        ELSE IF r.value = Undefined
        THEN ConversionResult(FALSE, None,
                              Some(<<"YAML content is empty or invalid">>))
        ELSE IF serialized.t = "thrown"
        THEN ConversionResult(FALSE, None,
                              Some(ErrorText(serialized, "Failed to format YAML")))
        ELSE ConversionResult(TRUE, Some(serialized.value), None)

minifyYAML(yamlContent, outcome, serialized) ==
    ConverterFormatYAML(yamlContent,
                        ConversionOptions(Some(0), Some(TRUE), Some(0), None),
                        outcome, serialized)

----------------------------------------------------------------------------
(* The texts the serializers write.                                        *)
(*                                                                         *)
(* JSON.stringify and JSON.parse are the ECMAScript built-ins.  A JSON     *)
(* text is the sequence of its tokens: the punctuation, "null", "s" for a  *)
(* string, finite number or boolean literal, and a key's name for a quoted *)
(* key; LF and SP are the white space an indent adds.  The values are      *)
(* those load returns: a scalar that JSON can write (Scalar), a number it  *)
(* cannot (NonFinite: .inf, -.inf, .nan), null, arrays and records.        *)

NonFinite == [t |-> "nonfinite"]

ArrayOf(items) == [t |-> "array", items |-> items]

\* the elements of an array
Items(value) == IF "items" \in DOMAIN value THEN value.items ELSE <<>>

\* the own properties of a record, in insertion order
Properties(obj) ==
    obj.entries \o [i \in 1..obj.plain |-> Entry(PlainKeyNames[i], Scalar)]

IndexKeys == <<"0", "1", "2">>

\* Object.keys(parsed as object) of a value that is not null
ObjectKeysOf(parsed) ==
    IF isRecord(parsed) THEN ObjectKeys(parsed)
    ELSE IF parsed.t = "array" THEN SubSeq(IndexKeys, 1, Len(Items(parsed)))
    ELSE <<>>

\* the key names in the order of their UTF-16 code units
SortedKeyNames ==
    <<"0", "1", "2", "apiVersion", "hostName", "k1", "k10", "k11", "k2", "k3",
      "k4", "k5", "k6", "k7", "k8", "k9", "spec", "userName", "version">>

KeyRank(key) == CHOOSE i \in 1..Len(SortedKeyNames) : SortedKeyNames[i] = key

\* Array.prototype.sort() without a comparator
sort(keys) == SortSeq(keys, LAMBDA a, b : KeyRank(a) < KeyRank(b))

\* the white space JSON.stringify puts before a member or an element
Gap(indent) == IF indent > 0 THEN <<LF, SP>> ELSE <<>>

RECURSIVE JSONstringify(_, _, _)
RECURSIVE stringifyMembers(_, _, _, _)
RECURSIVE stringifyItems(_, _, _, _)

\* the members of a record, from the i-th property of the list on
stringifyMembers(props, i, replacer, indent) ==
    IF i > Len(props) THEN <<>>
    ELSE (IF i > 1 THEN <<",">> ELSE <<>>)
         \o Gap(indent) \o <<props[i].key, ":">>
         \o JSONstringify(props[i].val, replacer, indent)
         \o stringifyMembers(props, i + 1, replacer, indent)

stringifyItems(items, i, replacer, indent) ==
    IF i > Len(items) THEN <<>>
    ELSE (IF i > 1 THEN <<",">> ELSE <<>>)
         \o Gap(indent)
         \o JSONstringify(items[i], replacer, indent)
         \o stringifyItems(items, i + 1, replacer, indent)

\* JSON.stringify(value, replacer, indent) for a replacer that is null (None)
\* or an array of keys.  An array replacer is the property list of EVERY
\* record of the value, whatever its depth: a record's members are the keys
\* of the list that the record owns, in the order of the list.
JSONstringify(value, replacer, indent) ==
    IF value.t = "record"
    THEN LET own == Properties(value)
             PropertyOf(k) ==
                 own[CHOOSE j \in 1..Len(own) : own[j].key = k]
             listed ==
                 IF replacer = None THEN own
                 ELSE LET ks == SelectSeq(replacer[1],
                                   LAMBDA k : \E j \in 1..Len(own) : own[j].key = k)
                      IN  [j \in 1..Len(ks) |-> PropertyOf(ks[j])]
         IN  <<"{">> \o stringifyMembers(listed, 1, replacer, indent)
                 \o (IF listed # <<>> THEN Gap(indent) ELSE <<>>) \o <<"}">>
    ELSE IF value.t = "array"
    THEN <<"[">> \o stringifyItems(Items(value), 1, replacer, indent)
             \o (IF Items(value) # <<>> THEN Gap(indent) ELSE <<>>) \o <<"]">>
    ELSE IF value.t = "scalar" THEN <<"s">>
    ELSE <<"null">>                  \* null, and Infinity, -Infinity and NaN

\* the next token of a text that is not white space
RECURSIVE SkipWs(_, _)
SkipWs(tokens, i) ==
    IF i <= Len(tokens) /\ IsWs(tokens[i]) THEN SkipWs(tokens, i + 1) ELSE i

ParseResult(value, next) == [value |-> value, next |-> next]

RECURSIVE parseValue(_, _)
RECURSIVE parseMembers(_, _, _)
RECURSIVE parseItems(_, _, _)

parseMembers(tokens, i, entries) ==
    LET j == SkipWs(tokens, i)
    IN  IF tokens[j] = "}" THEN ParseResult(Rec(entries, 0), j + 1)
        ELSE LET k == SkipWs(tokens, IF tokens[j] = "," THEN j + 1 ELSE j)
                 r == parseValue(tokens, k + 2)
             IN  parseMembers(tokens, r.next,
                              Append(entries, Entry(tokens[k], r.value)))

parseItems(tokens, i, items) ==
    LET j == SkipWs(tokens, i)
    IN  IF tokens[j] = "]" THEN ParseResult(ArrayOf(items), j + 1)
        ELSE LET r == parseValue(tokens, IF tokens[j] = "," THEN j + 1 ELSE j)
             IN  parseItems(tokens, r.next, Append(items, r.value))

\* the value that starts at the i-th token
parseValue(tokens, i) ==
    LET j == SkipWs(tokens, i)
    IN  IF tokens[j] = "{" THEN parseMembers(tokens, j + 1, <<>>)
        ELSE IF tokens[j] = "[" THEN parseItems(tokens, j + 1, <<>>)
        ELSE IF tokens[j] = "s" THEN ParseResult(Scalar, j + 1)
        ELSE IF tokens[j] = ".inf" THEN ParseResult(NonFinite, j + 1)
        ELSE ParseResult(Null, j + 1)

\* JSON.parse(text) of a text JSON.stringify wrote
JSONparse(text) == Parsed(parseValue(text, 1).value)

\* JSON.stringify(parsed, options.sortKeys ? Object.keys(parsed).sort() : null,
\*                options.indent ?? 2)
Stringified(parsed, opts) ==
    Returned(JSONstringify(parsed,
                 IF SortKeys(opts) THEN Some(sort(ObjectKeysOf(parsed))) ELSE None,
                 IF opts.indent = None THEN 2 ELSE opts.indent[1]))

\* dump(parsed, {...}) of js-yaml writes the value as a YAML text.  The text
\* is modelled in flow style, token by token as above, with a non-finite
\* number written ".inf" and the keys sorted when sortKeys is set; the layout
\* that indent and flowLevel choose is not modelled.
RECURSIVE SortedValue(_)
SortedValue(value) ==
    IF value.t = "record"
    THEN LET own == Properties(value)
             ks == sort([j \in 1..Len(own) |-> own[j].key])
         IN  Rec([j \in 1..Len(ks) |->
                     Entry(ks[j],
                           SortedValue(own[CHOOSE n \in 1..Len(own) :
                                               own[n].key = ks[j]].val))], 0)
    ELSE IF value.t = "array"
    THEN ArrayOf([j \in 1..Len(Items(value)) |-> SortedValue(Items(value)[j])])
    ELSE value

RECURSIVE dumpFlow(_)
RECURSIVE dumpMembers(_, _)
RECURSIVE dumpItems(_, _)

dumpMembers(props, i) ==
    IF i > Len(props) THEN <<>>
    ELSE (IF i > 1 THEN <<",">> ELSE <<>>) \o <<props[i].key, ":">>
         \o dumpFlow(props[i].val) \o dumpMembers(props, i + 1)

dumpItems(items, i) ==
    IF i > Len(items) THEN <<>>
    ELSE (IF i > 1 THEN <<",">> ELSE <<>>)
         \o dumpFlow(items[i]) \o dumpItems(items, i + 1)

dumpFlow(value) ==
    IF value.t = "record"
    THEN <<"{">> \o dumpMembers(Properties(value), 1) \o <<"}">>
    ELSE IF value.t = "array"
    THEN <<"[">> \o dumpItems(Items(value), 1) \o <<"]">>
    ELSE IF value.t = "scalar" THEN <<"s">>
    ELSE IF value.t = "nonfinite" THEN <<".inf">>
    ELSE <<"null">>

dump(parsed, opts) ==
    Returned(dumpFlow(IF SortKeys(opts) THEN SortedValue(parsed) ELSE parsed)
                 \o <<LF>>)

\* load(text) of a text dump wrote
loadDumped(text) == Parsed(parseValue(text, 1).value)

----------------------------------------------------------------------------
(* The engine under test: an input is fixed, then the entry points are     *)
(* called on it.                                                           *)

NoResult == [t |-> "none"]

\* Marks can only be found in a text that has a visible character.
MarkSets(text) == IF trim(text) = <<>> THEN {{}} ELSE SUBSET ContentMarks

KindLists == UNION {[1..n -> Kinds \cup {"unknown"}] : n \in 0..MaxKinds}

\* Suggestions as the AISuggestion type allows them: line and improvedCode
\* are optional whatever the kind.  A formatting fix is one line, another fix
\* a document of two lines.
SynthShapes ==
    { AISuggestion("formatting", "info", None, None, "", Some(<<"#">>)),
      AISuggestion("formatting", "info", Some(1), None, "", Some(<<"#">>)),
      AISuggestion("formatting", "info", Some(2), None, "", Some(<<"#">>)),
      AISuggestion("formatting", "info", Some(1), None, "", None),
      AISuggestion("naming", "info", None, None, "", Some(<<"#", LF, "#">>)),
      AISuggestion("naming", "info", Some(1), None, "", Some(<<"#", LF, "#">>)),
      AISuggestion("naming", "info", None, None, "", None) }

SynthLists == UNION {[1..n -> SynthShapes] : n \in 0..MaxSuggestions}

\* the variables a call reads and leaves alone
inputs == <<yamlText, parseOutcome, contentMarks, openaiApiKey, advisoryFault,
            scoreKinds, synthSuggestions, options, jsonOutcome, dumpOutcome>>

\* the variables of the other harnesses, which an engine call leaves alone
others == <<tabInsert, lastLint, lastYaml, reparsed,
            component, timers, awaiting, observed>>

\* the input is for validateYAML or analyzeYAML
TextInput == scoreKinds = None /\ synthSuggestions = None /\ options = None

CallValidateYAML ==
    /\ op = "none"
    /\ TextInput
    /\ lastValidation' = validateYAML(yamlText, parseOutcome)
    /\ parserInvoked' = (trim(yamlText) # <<>>)    \* load comes after the empty test
    /\ op' = "validateYAML"
    /\ UNCHANGED <<inputs, others, lastAnalysis, lastScore, lastImproved, lastConversion,
                   regexLastIndex, history>>

CallAnalyzeYAML ==
    /\ op = "none"
    /\ TextInput
    /\ lastAnalysis' = analyzeYAML(openaiApiKey, advisoryFault, yamlText,
                                   parseOutcome, contentMarks)
    /\ parserInvoked' = TRUE                       \* load is the first statement
    /\ regexLastIndex' = RegexAfterAnalyze(yamlText, parseOutcome, contentMarks,
                                           regexLastIndex)
    /\ op' = "analyzeYAML"
    /\ UNCHANGED <<inputs, others, lastValidation, lastScore, lastImproved, lastConversion,
                   history>>

CallCalculateConfidenceScore ==
    /\ op = "none"
    /\ scoreKinds # None
    /\ lastScore' = calculateConfidenceScore(scoreKinds[1])
    /\ op' = "calculateConfidenceScore"
    /\ UNCHANGED <<inputs, others, lastValidation, lastAnalysis, lastImproved,
                   lastConversion, parserInvoked, regexLastIndex, history>>

CallGenerateImprovedYaml ==
    /\ op = "none"
    /\ synthSuggestions # None
    /\ lastImproved' = generateImprovedYaml(yamlText, synthSuggestions[1])
    /\ op' = "generateImprovedYaml"
    /\ UNCHANGED <<inputs, others, lastValidation, lastAnalysis, lastScore,
                   lastConversion, parserInvoked, regexLastIndex, history>>

\* no edit is under test
NoEdit == tabInsert = None /\ lastLint = NoResult

\* no call of the engine has been made
NoEngineCall ==
    /\ op = "none"
    /\ lastValidation = NoResult
    /\ lastAnalysis = NoResult
    /\ lastScore = NoResult
    /\ lastImproved = NoResult
    /\ lastConversion = NoResult
    /\ parserInvoked = FALSE
    /\ regexLastIndex = 0
    /\ history = <<>>

\* no text has been converted back
NoRoundTrip == lastYaml = NoResult /\ reparsed = NoResult

\* no component is mounted
NoComponent ==
    /\ component = NoResult
    /\ timers = <<>>
    /\ awaiting = None
    /\ observed = NoResult

NothingCalled == NoEngineCall /\ NoEdit /\ NoRoundTrip /\ NoComponent

NoServiceInput ==
    contentMarks = {} /\ openaiApiKey = FALSE /\ advisoryFault = FALSE

NoConverterInput ==
    options = None /\ jsonOutcome = NoResult /\ dumpOutcome = NoResult

\* validateYAML on every text and every answer of the parser
Init ==
    /\ yamlText \in Texts
    /\ parseOutcome \in PossibleOutcomes(yamlText)
    /\ NoServiceInput
    /\ scoreKinds = None
    /\ synthSuggestions = None
    /\ NoConverterInput
    /\ NothingCalled

Next == CallValidateYAML

Spec == Init /\ [][Next]_vars

\* The suggestion service: analyzeYAML on every text, answer of the parser,
\* content and configuration, calculateConfidenceScore on every list of
\* kinds, and generateImprovedYaml on every text and list of suggestions.  A
\* thrown fault's mark and reason are not read by analyzeYAML, and the
\* provider is called only when a key is configured.
InitAnalyze ==
    /\ yamlText \in Texts
    /\ parseOutcome \in PossibleOutcomes(yamlText)
                            \ {Thrown(TRUE, m, r) : m \in Marks \ {None}, r \in Reasons}
    /\ contentMarks \in MarkSets(yamlText)
    /\ openaiApiKey \in BOOLEAN
    /\ advisoryFault \in (IF openaiApiKey THEN BOOLEAN ELSE {FALSE})
    /\ scoreKinds = None
    /\ synthSuggestions = None
    /\ NoConverterInput
    /\ NothingCalled

InitScore ==
    /\ yamlText = <<>>
    /\ parseOutcome = Parsed(Undefined)
    /\ NoServiceInput
    /\ scoreKinds \in {Some(ks) : ks \in KindLists}
    /\ synthSuggestions = None
    /\ NoConverterInput
    /\ NothingCalled

InitSynth ==
    /\ yamlText \in Texts
    /\ parseOutcome = Parsed(Undefined)
    /\ NoServiceInput
    /\ scoreKinds = None
    /\ synthSuggestions \in {Some(l) : l \in SynthLists}
    /\ NoConverterInput
    /\ NothingCalled

InitAI == InitAnalyze \/ InitScore \/ InitSynth

NextAI ==
    \/ CallAnalyzeYAML
    \/ CallCalculateConfidenceScore
    \/ CallGenerateImprovedYaml

SpecAI == InitAI /\ [][NextAI]_vars

\* The converter's inputs.  The converter reads a fault's message only.
OptionSets == {DefaultOptions, ConversionOptions(None, None, None, Some(TRUE))}

SerializerOutcomes ==
    {Returned(<<"a">>), Returned(<<"a", LF, "a", LF>>), ThrownError("TypeError")}

ConverterOutcomes(text) ==
    PossibleOutcomes(text) \ {Thrown(TRUE, m, r) : m \in Marks \ {None}, r \in Reasons}

JsonValues == {Null, Scalar, Array, Rec(<<>>, 0), Rec(<<Entry("version", Scalar)>>, 1)}

\* JSON.parse: a text without an ordinary character is no JSON text
PossibleJsonOutcomes(text) ==
    IF ~includes(text, "a") THEN {ThrownError("SyntaxError")}
    ELSE {Parsed(v) : v \in JsonValues} \cup {ThrownError("SyntaxError")}

CallYamlToJSON ==
    /\ op = "none"
    /\ options # None
    /\ jsonOutcome = NoResult
    /\ lastConversion' = yamlToJSON(yamlText, options[1], parseOutcome, dumpOutcome)
    /\ parserInvoked' = (trim(yamlText) # <<>>)
    /\ op' = "yamlToJSON"
    /\ UNCHANGED <<inputs, others, lastValidation, lastAnalysis, lastScore, lastImproved,
                   regexLastIndex, history>>

CallJsonToYAML ==
    /\ op = "none"
    /\ options # None
    /\ jsonOutcome # NoResult
    /\ lastConversion' = jsonToYAML(yamlText, options[1], jsonOutcome, dumpOutcome)
    /\ op' = "jsonToYAML"
    /\ UNCHANGED <<inputs, others, lastValidation, lastAnalysis, lastScore, lastImproved,
                   parserInvoked, regexLastIndex, history>>

CallFormatYAML ==
    /\ op = "none"
    /\ options # None
    /\ jsonOutcome = NoResult
    /\ lastConversion' =
           ConverterFormatYAML(yamlText, options[1], parseOutcome, dumpOutcome)
    /\ parserInvoked' = TRUE
    /\ op' = "formatYAML"
    /\ UNCHANGED <<inputs, others, lastValidation, lastAnalysis, lastScore, lastImproved,
                   regexLastIndex, history>>

CallMinifyYAML ==
    /\ op = "none"
    /\ options # None
    /\ jsonOutcome = NoResult
    /\ lastConversion' = minifyYAML(yamlText, parseOutcome, dumpOutcome)
    /\ parserInvoked' = TRUE
    /\ op' = "minifyYAML"
    /\ UNCHANGED <<inputs, others, lastValidation, lastAnalysis, lastScore, lastImproved,
                   regexLastIndex, history>>

\* The converter on every text, answer of the parsers and of the serializer:
\* a YAML text for yamlToJSON, formatYAML and minifyYAML, or a JSON text for
\* jsonToYAML.
InitConverter ==
    /\ yamlText \in Texts
    /\ \/ parseOutcome \in ConverterOutcomes(yamlText) /\ jsonOutcome = NoResult
       \/ parseOutcome = Parsed(Undefined)
              /\ jsonOutcome \in PossibleJsonOutcomes(yamlText)
    /\ options \in {Some(o) : o \in OptionSets}
    /\ dumpOutcome \in SerializerOutcomes
    /\ NoServiceInput
    /\ scoreKinds = None
    /\ synthSuggestions = None
    /\ NothingCalled

NextConverter ==
    \/ CallYamlToJSON
    \/ CallJsonToYAML
    \/ CallFormatYAML
    \/ CallMinifyYAML

SpecConverter == InitConverter /\ [][NextConverter]_vars

(* One service instance called again and again.  js-yaml and the regexes   *)
(* are deterministic: a text that is handed in again gets the answer of    *)
(* the parser and the content marks it had before.  The provider is the    *)
(* mock, which does not fault.                                             *)

SeqTexts == {<<"a">>, <<TAB, "a">>, <<SP>>}

SeqOutcomes(text) ==
    IF ~includes(text, "a") THEN {Parsed(Undefined)}
    ELSE {Parsed(Rec(<<Entry("userName", Scalar)>>, 0)), Parsed(Scalar),
          Thrown(TRUE, None, <<>>)}

SeqMarks(text) == IF trim(text) = <<>> THEN {{}} ELSE {{}, {"urlOrIp"}}

CallRecord(name, text, outcome, marks, result) ==
    [op |-> name, text |-> text, outcome |-> outcome, marks |-> marks,
     result |-> result]

\* the parser and the regexes answered the same for this text before
SameAsBefore(text, outcome, marks) ==
    \A i \in 1..Len(history) :
        history[i].text = text
            => history[i].outcome = outcome /\ history[i].marks = marks

ValidateAgain ==
    /\ Len(history) < MaxCalls
    /\ \E text \in SeqTexts :
       \E outcome \in SeqOutcomes(text) :
       \E marks \in SeqMarks(text) :
           /\ SameAsBefore(text, outcome, marks)
           /\ yamlText' = text
           /\ parseOutcome' = outcome
           /\ contentMarks' = marks
           /\ lastValidation' = validateYAML(text, outcome)
           /\ parserInvoked' = (trim(text) # <<>>)
           /\ history' = Append(history,
                  CallRecord("validateYAML", text, outcome, marks,
                             validateYAML(text, outcome)))
    /\ op' = "validateYAML"
    /\ UNCHANGED <<others, openaiApiKey, advisoryFault, scoreKinds, synthSuggestions,
                   options, jsonOutcome, dumpOutcome, lastAnalysis, lastScore,
                   lastImproved, lastConversion, regexLastIndex>>

AnalyzeAgain ==
    /\ Len(history) < MaxCalls
    /\ \E text \in SeqTexts :
       \E outcome \in SeqOutcomes(text) :
       \E marks \in SeqMarks(text) :
           /\ SameAsBefore(text, outcome, marks)
           /\ yamlText' = text
           /\ parseOutcome' = outcome
           /\ contentMarks' = marks
           /\ lastAnalysis' = analyzeYAML(openaiApiKey, advisoryFault, text,
                                          outcome, marks)
           /\ regexLastIndex' = RegexAfterAnalyze(text, outcome, marks,
                                                  regexLastIndex)
           /\ history' = Append(history,
                  CallRecord("analyzeYAML", text, outcome, marks,
                             analyzeYAML(openaiApiKey, advisoryFault, text,
                                         outcome, marks)))
    /\ parserInvoked' = TRUE
    /\ op' = "analyzeYAML"
    /\ UNCHANGED <<others, openaiApiKey, advisoryFault, scoreKinds, synthSuggestions,
                   options, jsonOutcome, dumpOutcome, lastValidation, lastScore,
                   lastImproved, lastConversion>>

InitSequence ==
    /\ yamlText = <<>>
    /\ parseOutcome = Parsed(Undefined)
    /\ contentMarks = {}
    /\ openaiApiKey \in BOOLEAN
    /\ advisoryFault = FALSE
    /\ scoreKinds = None
    /\ synthSuggestions = None
    /\ NoConverterInput
    /\ NothingCalled

NextSequence == ValidateAgain \/ AnalyzeAgain

SpecSequence == InitSequence /\ [][NextSequence]_vars

----------------------------------------------------------------------------
(* The linter on a text and on the same text with one more tab             *)
(* (specification SpecLinter).  checkStructuralIssues runs when load has    *)
(* returned a value, for the text and for the edited text alike.            *)

\* the text with a tab after its first `at` characters
InsertTab(text, at) ==
    SubSeq(text, 1, at) \o <<TAB>> \o SubSeq(text, at + 1, Len(text))

\* the values load can return for a text
ParsedOutcomes(text) == {o \in PossibleOutcomes(text) : o.t = "parsed"}

TabInsert(at, outcome) == [at |-> at, outcome |-> outcome]

CallCheckStructuralIssues ==
    /\ op = "none"
    /\ tabInsert # None
    /\ LET edited == InsertTab(yamlText, tabInsert[1].at)
       IN  lastLint' =
               [before |-> checkStructuralIssues(yamlText, parseOutcome.value),
                after |-> checkStructuralIssues(edited,
                                                tabInsert[1].outcome.value)]
    /\ op' = "checkStructuralIssues"
    /\ UNCHANGED <<inputs, tabInsert, lastValidation, lastAnalysis, lastScore,
                   lastImproved, lastConversion, parserInvoked, regexLastIndex,
                   history, lastYaml, reparsed, component, timers, awaiting,
                   observed>>

InitLinter ==
    /\ yamlText \in Texts
    /\ parseOutcome \in ParsedOutcomes(yamlText)
    /\ tabInsert \in
           UNION {{Some(TabInsert(at, o)) :
                      o \in ParsedOutcomes(InsertTab(yamlText, at))} :
                  at \in 0..Len(yamlText)}
    /\ lastLint = NoResult
    /\ NoRoundTrip
    /\ NoComponent
    /\ NoServiceInput
    /\ scoreKinds = None
    /\ synthSuggestions = None
    /\ NoConverterInput
    /\ NoEngineCall

NextLinter == CallCheckStructuralIssues

SpecLinter == InitLinter /\ [][NextLinter]_vars

----------------------------------------------------------------------------
(* A value through the converter and back (specification SpecRoundTrip):   *)
(* yamlToJSON of a YAML text, jsonToYAML of the JSON text it returned, and  *)
(* load of the YAML text that returned.  JSON.stringify, JSON.parse and the *)
(* pair dump and load answer as modelled above.                             *)

ConverterValues ==
    { Null, Scalar, NonFinite,
      ArrayOf(<<>>),
      ArrayOf(<<Scalar, Null>>),
      ArrayOf(<<Rec(<<Entry("version", Scalar)>>, 0)>>),
      Rec(<<>>, 0),
      Rec(<<Entry("version", Scalar), Entry("apiVersion", Scalar)>>, 0),
      Rec(<<Entry("version", Scalar)>>, 2),
      Rec(<<Entry("version", Scalar),
            Entry("spec", Rec(<<Entry("userName", Scalar)>>, 0))>>, 0),
      Rec(<<Entry("spec", Rec(<<Entry("version", Scalar)>>, 0)),
            Entry("version", ArrayOf(<<Scalar>>))>>, 0),
      Rec(<<Entry("spec", NonFinite)>>, 0) }

RoundTripOutcomes(text) ==
    IF ~includes(text, "a") THEN {Parsed(Undefined)}
    ELSE {Parsed(v) : v \in ConverterValues}
             \cup {Thrown(TRUE, None, <<>>)}

RoundTripOptions ==
    {ConversionOptions(i, None, None, sk) :
         i \in {None, Some(0)}, sk \in {None, Some(FALSE), Some(TRUE)}}

ConvertYamlToJSON ==
    /\ op = "none"
    /\ options # None
    /\ lastConversion' =
           yamlToJSON(yamlText, options[1], parseOutcome,
                      Stringified(parseOutcome.value, options[1]))
    /\ parserInvoked' = (trim(yamlText) # <<>>)
    /\ op' = "yamlToJSON"
    /\ UNCHANGED <<inputs, tabInsert, lastLint, lastYaml, reparsed,
                   lastValidation, lastAnalysis, lastScore, lastImproved,
                   regexLastIndex, history, component, timers, awaiting,
                   observed>>

ConvertJsonToYAML ==
    /\ op = "yamlToJSON"
    /\ lastConversion.success
    /\ LET jsonContent == lastConversion.result[1]
           parsedJson == JSONparse(jsonContent)
       IN  lastYaml' = jsonToYAML(jsonContent, options[1], parsedJson,
                                  dump(parsedJson.value, options[1]))
    /\ op' = "jsonToYAML"
    /\ UNCHANGED <<inputs, tabInsert, lastLint, reparsed, lastValidation,
                   lastAnalysis, lastScore, lastImproved, lastConversion,
                   parserInvoked, regexLastIndex, history, component, timers,
                   awaiting, observed>>

LoadConverted ==
    /\ op = "jsonToYAML"
    /\ lastYaml.success
    /\ reparsed' = loadDumped(lastYaml.result[1])
    /\ op' = "load"
    /\ UNCHANGED <<inputs, tabInsert, lastLint, lastYaml, lastValidation,
                   lastAnalysis, lastScore, lastImproved, lastConversion,
                   parserInvoked, regexLastIndex, history, component, timers,
                   awaiting, observed>>

InitRoundTrip ==
    /\ yamlText \in Texts
    /\ parseOutcome \in RoundTripOutcomes(yamlText)
    /\ options \in {Some(o) : o \in RoundTripOptions}
    /\ jsonOutcome = NoResult
    /\ dumpOutcome = NoResult
    /\ NoServiceInput
    /\ scoreKinds = None
    /\ synthSuggestions = None
    /\ NothingCalled

NextRoundTrip ==
    \/ ConvertYamlToJSON
    \/ ConvertJsonToYAML
    \/ LoadConverted

SpecRoundTrip == InitRoundTrip /\ [][NextRoundTrip]_vars

----------------------------------------------------------------------------
(* The components that call the engine (specification SpecComponents):     *)
(* EnhancedYAMLValidator (src/unnamed/part_001), SimpleYAMLValidator        *)
(* (src/src/lib/yaml-ai-service.ts, from line 300) and YAMLValidator        *)
(* (src/src/components/YAMLValidator.tsx).  One of them is mounted.  A      *)
(* step is a user event, a timer callback, or the rest of a handler after   *)
(* its await.  analyzeYAML awaits nothing but resolved promises, so the     *)
(* rest of a handler runs as a microtask, before any other event or timer:  *)
(* every other step waits for it (awaiting = None).                         *)

MaxPending == 2

\* the texts typed or pasted into the editor
EditorTexts == {<<>>, <<SP>>, <<"a">>, <<"a", TAB>>, <<"a", "#">>, <<"a", LF>>}

\* load is a function of the text: what it answers for the editor's texts
loadOf(text) ==
    IF ~includes(text, "a") THEN Parsed(Undefined)
    ELSE IF text = <<"a", "#">>
    THEN Thrown(TRUE, Some(Mark(0, 1)),
                <<"unexpected end of the stream within a double ", "quote",
                  "d scalar">>)
    ELSE Parsed(Rec(<<Entry("version", Scalar)>>, 0))

\* YAMLValidatorSettings, the three flags the component reads
Settings(autoValidate, enableAISuggestions, formatOnPaste) ==
    [autoValidate |-> autoValidate,
     enableAISuggestions |-> enableAISuggestions,
     formatOnPaste |-> formatOnPaste]

AllSettings == {Settings(a, e, f) : a \in BOOLEAN, e \in BOOLEAN, f \in BOOLEAN}

\* the state of each component after its first render
EnhancedYAMLValidator(settings) ==
    [name |-> "EnhancedYAMLValidator", settings |-> settings,
     yamlContent |-> <<>>, validationResult |-> None, aiAnalysis |-> None,
     isValidating |-> FALSE, isAnalyzing |-> FALSE]

SimpleYAMLValidator ==
    [name |-> "SimpleYAMLValidator",
     yamlContent |-> <<"#", "a", LF, "a">>,
     validationResult |-> None, aiAnalysis |-> None, isAnalyzing |-> FALSE]

YAMLValidator ==
    [name |-> "YAMLValidator",
     yamlContent |-> <<>>, validationResult |-> None, isValidating |-> FALSE]

\* a pending setTimeout callback: its delay and what its closure holds
Timer(kind, delay, content, enableAISuggestions) ==
    [kind |-> kind, delay |-> delay, content |-> content,
     enableAISuggestions |-> enableAISuggestions]

\* a timer is due before every timer set later with no shorter delay
Due(i) == \A j \in 1..(i - 1) : timers[j].delay > timers[i].delay

RemoveAt(seq, i) == SubSeq(seq, 1, i - 1) \o SubSeq(seq, i + 1, Len(seq))

\* the handler suspended at its await: the content and validation result it
\* holds, and what the promise of analyzeYAML settles with
Continuation(content, validation, analysis) ==
    [content |-> content, validation |-> validation, analysis |-> analysis]

\* yamlAI.analyzeYAML(content): the promise resolves with the analysis; the
\* catch of the handlers is for a rejection
AnalysisPromises(content) ==
    {Returned(analyzeYAML(openaiApiKey, advisoryFault, content, loadOf(content),
                          {})),
     ThrownError("Error")}

Observed(invocations, superseded, analysisFor) ==
    [invocations |-> invocations, superseded |-> superseded,
     analysisFor |-> analysisFor]

\* a user event starts a new idle gap
UserEvent == [observed EXCEPT !.invocations = 0, !.superseded = FALSE]

\* the synchronous part of performValidation(content), with the
\* enableAISuggestions of the closure that runs
performValidation(c, content, enableAISuggestions, analysis) ==
    IF trim(content) = <<>>
    THEN [component |-> [c EXCEPT !.validationResult = None, !.aiAnalysis = None],
          awaiting |-> None]
    ELSE LET validation == validateYAML(content, loadOf(content))
         IN  IF enableAISuggestions
             THEN [component |->
                       [c EXCEPT !.isValidating = TRUE,
                                 !.validationResult = Some(validation),
                                 !.isAnalyzing = TRUE],
                   awaiting |-> Some(Continuation(content, validation, analysis))]
             ELSE [component |->
                       [c EXCEPT !.validationResult = Some(validation),
                                 !.isValidating = FALSE],
                   awaiting |-> None]

\* mutant: the flags are reset in the try blocks, not in finally
resumeValidation_NoFinally(c, analysis) ==
    IF analysis.t = "returned"
    THEN [c EXCEPT !.aiAnalysis = Some(analysis.value),
                   !.isAnalyzing = FALSE, !.isValidating = FALSE]
    ELSE [c EXCEPT !.aiAnalysis = None]

\* the rest of performValidation after the await: try, catch and both finally
resumeValidation(c, analysis) ==
    [c EXCEPT !.aiAnalysis =
                  IF analysis.t = "returned" THEN Some(analysis.value) ELSE None,
              !.isAnalyzing = FALSE,
              !.isValidating = FALSE]

\* the auto-validation effect: its cleanup clears the timer of the last run,
\* its body sets a new one
autoValidationEffect(c, pending) ==
    LET cleared == SelectSeq(pending, LAMBDA t : t.kind # "effect")
    IN  IF ~c.settings.autoValidate \/ c.yamlContent = <<>> THEN cleared
        ELSE Append(cleared, Timer("effect", 1000, c.yamlContent,
                                   c.settings.enableAISuggestions))

\* the effect runs again after a render that changed one of its dependencies
Rendered(old, new, pending) ==
    IF \/ old.yamlContent # new.yamlContent
       \/ old.settings.autoValidate # new.settings.autoValidate
       \/ old.settings.enableAISuggestions # new.settings.enableAISuggestions
    THEN autoValidationEffect(new, pending)
    ELSE pending

\* the variables of the engine harnesses, which a component step leaves alone
engine == <<inputs, op, lastValidation, lastAnalysis, lastScore, lastImproved,
            lastConversion, parserInvoked, regexLastIndex, history, tabInsert,
            lastLint, lastYaml, reparsed>>

Mounted(name) == component.name = name /\ awaiting = None

\* handleContentChange(content); `pasted` says that content is more than ten
\* characters longer than the editor's text
HandleContentChange ==
    /\ Mounted("EnhancedYAMLValidator")
    /\ \E content \in EditorTexts, pasted \in BOOLEAN :
           /\ pasted => includes(content, "a")
           /\ LET formatResult ==
                      ConverterFormatYAML(content, DefaultOptions, loadOf(content),
                                          Returned(<<"a", LF>>))
                  processedContent ==
                      IF /\ component.settings.formatOnPaste
                         /\ pasted
                         /\ formatResult.success
                         /\ Truthy(formatResult.result)
                      THEN formatResult.result[1]
                      ELSE content
                  new ==
                      IF ~component.settings.autoValidate
                      THEN [component EXCEPT !.yamlContent = processedContent,
                                             !.validationResult = None,
                                             !.aiAnalysis = None]
                      ELSE [component EXCEPT !.yamlContent = processedContent]
              IN  /\ component' = new
                  /\ timers' = Rendered(component, new, timers)
    /\ observed' = UserEvent
    /\ UNCHANGED <<engine, awaiting>>

\* handleSettingsChange(newSettings)
HandleSettingsChange ==
    /\ Mounted("EnhancedYAMLValidator")
    /\ \E newSettings \in AllSettings \ {component.settings} :
           LET new == [component EXCEPT !.settings = newSettings]
           IN  /\ component' = new
               /\ timers' = Rendered(component, new, timers)
    /\ observed' = UserEvent
    /\ UNCHANGED <<engine, awaiting>>

\* handleManualValidation, behind a button that is disabled while busy
HandleManualValidation ==
    /\ Mounted("EnhancedYAMLValidator")
    /\ trim(component.yamlContent) # <<>>
    /\ ~(component.isValidating \/ component.isAnalyzing)
    /\ \E analysis \in AnalysisPromises(component.yamlContent) :
           LET r == performValidation(component, component.yamlContent,
                                      component.settings.enableAISuggestions,
                                      analysis)
           IN  component' = r.component /\ awaiting' = r.awaiting
    /\ observed' = UserEvent
    /\ UNCHANGED <<engine, timers>>

\* handleApplyImprovement(aiAnalysis.improvedYaml), behind a button that is
\* shown for a non-empty improved text
HandleApplyImprovement ==
    /\ Mounted("EnhancedYAMLValidator")
    /\ component.aiAnalysis # None
    /\ Truthy(component.aiAnalysis[1].improvedYaml)
    /\ Len(SelectSeq(timers, LAMBDA t : t.kind = "apply")) < MaxPending
    /\ LET improvedYaml == component.aiAnalysis[1].improvedYaml[1]
           new == [component EXCEPT !.yamlContent = improvedYaml]
           pending ==
               IF component.settings.autoValidate
               THEN Append(timers,
                           Timer("apply", 500, improvedYaml,
                                 component.settings.enableAISuggestions))
               ELSE timers
       IN  /\ component' = new
           /\ timers' = Rendered(component, new, pending)
    /\ observed' = UserEvent
    /\ UNCHANGED <<engine, awaiting>>

\* handleClearAll, behind a button that is shown for a non-empty text
HandleClearAll ==
    /\ Mounted("EnhancedYAMLValidator")
    /\ component.yamlContent # <<>>
    /\ LET new == [component EXCEPT !.yamlContent = <<>>,
                                    !.validationResult = None,
                                    !.aiAnalysis = None]
       IN  /\ component' = new
           /\ timers' = Rendered(component, new, timers)
    /\ observed' = UserEvent
    /\ UNCHANGED <<engine, awaiting>>

\* a timer of the effect or of handleApplyImprovement calls performValidation
ValidationTimerFires ==
    /\ Mounted("EnhancedYAMLValidator")
    /\ \E i \in 1..Len(timers) :
           /\ Due(i)
           /\ \E analysis \in AnalysisPromises(timers[i].content) :
              LET r == performValidation(component, timers[i].content,
                                         timers[i].enableAISuggestions, analysis)
              IN  /\ component' = r.component
                  /\ awaiting' = r.awaiting
                  /\ observed' =
                         [observed EXCEPT
                             !.invocations =
                                 IF trim(timers[i].content) = <<>> THEN @ ELSE @ + 1,
                             !.superseded =
                                 timers[i].content # component.yamlContent]
           /\ timers' = RemoveAt(timers, i)
    /\ UNCHANGED engine

\* the promise settles and performValidation goes on
AnalysisSettles ==
    /\ component.name = "EnhancedYAMLValidator"
    /\ awaiting # None
    /\ component' = resumeValidation(component, awaiting[1].analysis)
    /\ observed' = [observed EXCEPT !.analysisFor = Some(awaiting[1].content)]
    /\ awaiting' = None
    /\ UNCHANGED <<engine, timers>>

\* SimpleYAMLValidator: onChange of the editor
SimpleSetYamlContent ==
    /\ Mounted("SimpleYAMLValidator")
    /\ \E content \in EditorTexts :
           /\ content # component.yamlContent
           /\ component' = [component EXCEPT !.yamlContent = content]
    /\ UNCHANGED <<engine, timers, awaiting, observed>>

SimpleResult(isValid, errors, jsonOutput) ==
    [isValid |-> isValid, errors |-> errors, jsonOutput |-> jsonOutput]

\* SimpleYAMLValidator.validateYAML up to its await, behind a button that is
\* disabled while analyzing
SimpleValidateYAML ==
    /\ Mounted("SimpleYAMLValidator")
    /\ ~component.isAnalyzing
    /\ LET text == component.yamlContent
           parsed == load(text, loadOf(text))
       IN  IF trim(text) = <<>>
           THEN /\ component' =
                       [component EXCEPT
                           !.validationResult =
                               Some(SimpleResult(FALSE, <<<<"YAML content is empty">>>>,
                                                 None)),
                           !.aiAnalysis = None]
                /\ awaiting' = None
           ELSE IF parsed.t = "thrown"
           THEN /\ component' =
                       [component EXCEPT
                           !.validationResult =
                               Some(SimpleResult(FALSE,
                                        <<ErrorText(parsed, "Unknown error")>>, None)),
                           !.aiAnalysis = None]
                /\ awaiting' = None
           ELSE /\ component' =
                       [component EXCEPT
                           !.validationResult =
                               Some(SimpleResult(TRUE, <<>>,
                                   IF parsed.value = Undefined THEN None
                                   ELSE Some(JSONstringify(parsed.value, None, 2)))),
                           !.isAnalyzing = TRUE]
                /\ \E analysis \in AnalysisPromises(text) :
                       awaiting' = Some(Continuation(text, NoResult, analysis))
    /\ UNCHANGED <<engine, timers, observed>>

\* the rest of SimpleYAMLValidator.validateYAML after the await
SimpleAnalysisSettles ==
    /\ component.name = "SimpleYAMLValidator"
    /\ awaiting # None
    /\ LET analysis == awaiting[1].analysis
       IN  component' =
               [component EXCEPT
                   !.aiAnalysis =
                       IF analysis.t = "returned" THEN Some(analysis.value)
                       ELSE None,
                   !.isAnalyzing = FALSE]
    /\ awaiting' = None
    /\ UNCHANGED <<engine, timers, observed>>

\* YAMLValidator.handleTextareaChange
HandleTextareaChange ==
    /\ Mounted("YAMLValidator")
    /\ \E content \in EditorTexts :
           /\ content # component.yamlContent
           /\ component' = [component EXCEPT !.yamlContent = content]
    /\ UNCHANGED <<engine, timers, awaiting, observed>>

\* YAMLValidator.handleValidation up to its await, behind a button that is
\* disabled for a blank text and while validating
HandleValidation ==
    /\ Mounted("YAMLValidator")
    /\ trim(component.yamlContent) # <<>>
    /\ ~component.isValidating
    /\ component' = [component EXCEPT !.isValidating = TRUE]
    /\ timers' = Append(timers, Timer("validation", 300, component.yamlContent, FALSE))
    /\ UNCHANGED <<engine, awaiting, observed>>

\* the callback handleValidation handed to setTimeout
HandleValidationTimerFires ==
    /\ Mounted("YAMLValidator")
    /\ timers # <<>>
    /\ LET result == validateYAML(timers[1].content, loadOf(timers[1].content))
       IN  component' = [component EXCEPT !.validationResult = Some(result),
                                          !.isValidating = FALSE]
    /\ timers' = Tail(timers)
    /\ UNCHANGED <<engine, awaiting, observed>>

InitComponents ==
    /\ component \in {EnhancedYAMLValidator(st) : st \in AllSettings}
                         \cup {SimpleYAMLValidator, YAMLValidator}
    /\ timers = <<>>
    /\ awaiting = None
    /\ observed = Observed(0, FALSE, None)
    /\ yamlText = <<>>
    /\ parseOutcome = Parsed(Undefined)
    /\ NoServiceInput
    /\ scoreKinds = None
    /\ synthSuggestions = None
    /\ NoConverterInput
    /\ NoEngineCall
    /\ NoEdit
    /\ NoRoundTrip

NextComponents ==
    \/ HandleContentChange
    \/ HandleSettingsChange
    \/ HandleManualValidation
    \/ HandleApplyImprovement
    \/ HandleClearAll
    \/ ValidationTimerFires
    \/ AnalysisSettles
    \/ SimpleSetYamlContent
    \/ SimpleValidateYAML
    \/ SimpleAnalysisSettles
    \/ HandleTextareaChange
    \/ HandleValidation
    \/ HandleValidationTimerFires

\* The event loop runs every queued microtask and every timer that is due.
SpecComponents ==
    /\ InitComponents
    /\ [][NextComponents]_vars
    /\ WF_vars(AnalysisSettles)
    /\ WF_vars(SimpleAnalysisSettles)
    /\ WF_vars(HandleValidationTimerFires)

----------------------------------------------------------------------------
(* Properties of validateYAML (specification Spec) *)

Validated == op = "validateYAML"

ParserAccepts == parseOutcome.t = "parsed"

Blank(text) == \A i \in 1..Len(text) : IsWs(text[i])

TextLines == split(yamlText)

\* the number of space characters a line starts with
RECURSIVE LeadingSpaces(_)
LeadingSpaces(line) ==
    IF line = <<>> \/ Head(line) # SP THEN 0 ELSE 1 + LeadingSpaces(Tail(line))

NoTab == \A i \in 1..Len(yamlText) : yamlText[i] # TAB

NoTrailingWhitespace ==
    \A i \in 1..Len(TextLines) :
        LET l == TextLines[i] IN l = <<>> \/ ~IsWs(l[Len(l)])

EvenIndentation ==
    \A i \in 1..Len(TextLines) : LeadingSpaces(TextLines[i]) % 2 = 0

NoLinterFinding ==
    Len(checkStructuralIssues(yamlText, parseOutcome.value)) = 0

ValidIffCleanParse ==
    /\ lastValidation.isValid <=> (ParserAccepts /\ NoLinterFinding)
    /\ (ParserAccepts /\ NoTab /\ NoTrailingWhitespace /\ EvenIndentation)
           => (lastValidation.errors = <<>> /\ lastValidation.isValid)

\* C1, as stated: for every non-empty text, isValid holds exactly when the
\* parser accepts the text and the linter and the duplicate-key check find
\* nothing, and a text that parses and has no tab, no trailing white space and
\* only even indentation is valid with no errors.
C1_NonEmptyText ==
    (Validated /\ yamlText # <<>>) => ValidIffCleanParse

\* C1, amended: the same for every text that holds a character other than
\* white space (a white-space-only text is rejected before the parser runs).
C1_ValidIffCleanParse ==
    (Validated /\ ~Blank(yamlText)) => ValidIffCleanParse

C1_Witness ==
    /\ Validated
    /\ lastValidation.isValid
    /\ startsWith(yamlText, <<SP, SP>>)

\* C2: isValid implies no errors and formatted = the trimmed input; not
\* isValid implies formatted is absent; originalYaml is the input.
C2_ResultShape ==
    Validated =>
        /\ lastValidation.isValid =>
               /\ lastValidation.errors = <<>>
               /\ lastValidation.formatted # None
               /\ lastValidation.formatted[1] = trim(yamlText)
        /\ ~lastValidation.isValid => lastValidation.formatted = None
        /\ lastValidation.originalYaml = yamlText

C2_Witness ==
    /\ Validated
    /\ lastValidation.isValid
    /\ trim(yamlText) # yamlText

\* C3: an empty or white-space-only input gives isValid = FALSE and exactly
\* one error, of kind structure, at line 1 column 1, and no linter finding,
\* tabs in the white space or not.
C3_EmptyInput ==
    (Validated /\ Blank(yamlText)) =>
        /\ ~lastValidation.isValid
        /\ Len(lastValidation.errors) = 1
        /\ lastValidation.errors[1].type = "structure"
        /\ lastValidation.errors[1].line = 1
        /\ lastValidation.errors[1].column = 1

C3_Witness ==
    /\ Validated
    /\ Blank(yamlText)
    /\ includes(yamlText, TAB)
    /\ Len(lastValidation.errors) = 1

\* C4: when the parser rejects a non-empty text with a syntax exception, the
\* result is invalid with exactly one error, of kind syntax, at line
\* mark.line + 1 and column mark.column + 1, or at (1,1) without a mark.
C4_SyntaxErrorPosition ==
    (Validated /\ ~Blank(yamlText) /\ ~ParserAccepts /\ parseOutcome.yamlException) =>
        /\ ~lastValidation.isValid
        /\ Len(lastValidation.errors) = 1
        /\ lastValidation.errors[1].type = "syntax"
        /\ parseOutcome.mark = None =>
               /\ lastValidation.errors[1].line = 1
               /\ lastValidation.errors[1].column = 1
        /\ parseOutcome.mark # None =>
               /\ lastValidation.errors[1].line = parseOutcome.mark[1].line + 1
               /\ lastValidation.errors[1].column = parseOutcome.mark[1].column + 1

C4_Witness ==
    /\ Validated
    /\ ~ParserAccepts
    /\ parseOutcome.yamlException
    /\ parseOutcome.mark = Some(Mark(1, 1))
    /\ lastValidation.errors[1].line = 2
    /\ lastValidation.errors[1].column = 2

IndentMessage == <<"Inconsistent indentation (should be even number of spaces)">>

TabMessage == <<"YAML uses tabs instead of spaces for indentation">>

TrailingMessage == <<"Line has trailing whitespace">>

FindingsAt(i, message) ==
    {j \in 1..Len(lastValidation.errors) :
        /\ lastValidation.errors[j].type = "format"
        /\ lastValidation.errors[j].line = i
        /\ lastValidation.errors[j].message = message}

FormatFindingsAt(i) ==
    {j \in 1..Len(lastValidation.errors) :
        /\ lastValidation.errors[j].type = "format"
        /\ lastValidation.errors[j].line = i}

\* a line that starts with a tab and holds no other white space
OnlyLeadingTab(l) ==
    /\ Len(l) >= 2
    /\ l[1] = TAB
    /\ \A k \in 2..Len(l) : ~IsWs(l[k])

\* C5: a line gets the indentation finding exactly when it is not empty, is
\* not a comment and starts with a positive, odd number of space characters;
\* so a line whose only defect is a leading tab gets one finding, the tab's.
C5_IndentBySpaces ==
    (Validated /\ ~Blank(yamlText) /\ ParserAccepts) =>
        \A i \in 1..Len(TextLines) :
            LET l == TextLines[i] IN
            /\ FindingsAt(i, IndentMessage) # {}
                   <=> /\ trim(l) # <<>>
                       /\ ~startsWith(trim(l), <<"#">>)
                       /\ LeadingSpaces(l) > 0
                       /\ LeadingSpaces(l) % 2 = 1
            /\ OnlyLeadingTab(l)
                   => /\ Cardinality(FormatFindingsAt(i)) = 1
                      /\ FindingsAt(i, TabMessage) # {}

\* The linter's three rules for one line, as predicates of the line
HasTab(l) == \E k \in 1..Len(l) : l[k] = TAB

HasTrailingWhitespace(l) == l # <<>> /\ IsWs(l[Len(l)])

RECURSIVE LeadingWhitespace(_)
LeadingWhitespace(l) ==
    IF l = <<>> \/ ~IsWs(Head(l)) THEN 0 ELSE 1 + LeadingWhitespace(Tail(l))

HasOddIndent(l) ==
    /\ LeadingWhitespace(l) < Len(l)
    /\ l[LeadingWhitespace(l) + 1] # "#"
    /\ LeadingWhitespace(l) % 2 = 1

----------------------------------------------------------------------------
(* Properties of analyzeYAML and calculateConfidenceScore (specification   *)
(* SpecAI)                                                                 *)

Analyzed == op = "analyzeYAML"

Scored == op = "calculateConfidenceScore"

Suggestions == lastAnalysis.suggestions

FormattingSuggestions == SelectSeq(Suggestions, LAMBDA x : x.type = "formatting")

LinterFindings == lintFrom(split(yamlText), 1)

\* where each rule-based and advisory suggestion comes from, by its message
Layer(x) ==
    IF x.type = "formatting" THEN 1
    ELSE IF x.type = "naming" THEN 2
    ELSE IF x.message \in {"No version field found",
                           "Hardcoded URLs or IP addresses detected"} THEN 2
    ELSE 3

LayerOrder ==
    \A j, k \in 1..Len(Suggestions) :
        j < k => Layer(Suggestions[j]) <= Layer(Suggestions[k])

\* C7: for a text that parses, the formatting suggestions of analyzeYAML are
\* the structural linter's findings for the text, position by position in
\* the same order, and the list is ordered formatting, then semantic, then
\* advisory suggestions.
C7_FormattingIsLinter ==
    (Analyzed /\ ParserAccepts /\ ~Blank(yamlText)) =>
        /\ [j \in 1..Len(FormattingSuggestions) |->
               <<FormattingSuggestions[j].line[1], FormattingSuggestions[j].column[1]>>]
             = [j \in 1..Len(LinterFindings) |->
                   <<LinterFindings[j].line, LinterFindings[j].column>>]
        /\ LayerOrder

\* C8: when the parser rejects the text, analyzeYAML returns hasImprovements
\* = FALSE, no suggestion, confidenceScore 0 and no improvedYaml.
C8_RejectedTextNoSuggestions ==
    (Analyzed /\ ~ParserAccepts) =>
        /\ lastAnalysis.hasImprovements = FALSE
        /\ lastAnalysis.suggestions = <<>>
        /\ lastAnalysis.confidenceScore.num = 0
        /\ lastAnalysis.improvedYaml = None

C8_Witness ==
    /\ Analyzed
    /\ ~ParserAccepts
    /\ includes(yamlText, TAB)
    /\ contentMarks = ContentMarks
    /\ openaiApiKey
    /\ lastAnalysis.suggestions = <<>>

\* C9: hasImprovements = (suggestions is not empty), and improvedYaml is set
\* exactly when suggestions is not empty.
C9_ImprovementsIffSuggestions ==
    Analyzed =>
        /\ lastAnalysis.hasImprovements <=> (Len(Suggestions) > 0)
        /\ (lastAnalysis.improvedYaml # None) <=> (Len(Suggestions) > 0)

C9_Witness ==
    /\ Analyzed
    /\ Len(Suggestions) > 0
    /\ lastAnalysis.hasImprovements
    /\ lastAnalysis.improvedYaml = Some(yamlText)

CountKind(kinds, k) == Cardinality({i \in 1..Len(kinds) : kinds[i] = k})

\* the summed weight of a multiset of kinds, in hundredths
BagWeight(kinds) ==
    80 * CountKind(kinds, "formatting") + 60 * CountKind(kinds, "naming")
        + 70 * CountKind(kinds, "best-practice") + 90 * CountKind(kinds, "logical")
        + 95 * CountKind(kinds, "security") + 50 * CountKind(kinds, "unknown")

\* C10: the score of the empty list is 1.0; the score of a list of n > 0
\* suggestions is max(0.1, 1 - summed weight / n), which lies in [0.1, 1.0] and
\* depends only on how often each kind occurs; every score of analyzeYAML
\* lies in [0, 1].
C10_ConfidenceScore ==
    /\ Scored =>
           LET kinds == scoreKinds[1]
               n == Len(kinds)
           IN  /\ lastScore.den > 0
               /\ n = 0 => lastScore.num = 100 * lastScore.den
               /\ n > 0 =>
                      /\ lastScore.num * n
                             = lastScore.den * Max(10 * n, 100 * n - BagWeight(kinds))
                      /\ 10 * lastScore.den <= lastScore.num
                      /\ lastScore.num <= 100 * lastScore.den
    /\ Analyzed =>
           /\ lastAnalysis.confidenceScore.den > 0
           /\ 0 <= lastAnalysis.confidenceScore.num
           /\ lastAnalysis.confidenceScore.num <= 100 * lastAnalysis.confidenceScore.den

C10_Witness ==
    /\ Scored
    /\ Len(scoreKinds[1]) >= 2
    /\ \A i \in 1..Len(scoreKinds[1]) : scoreKinds[1][i] = "security"
    /\ lastScore.num = 10 * lastScore.den

----------------------------------------------------------------------------
(* Properties of generateImprovedYaml (specification SpecAI) *)

Synthesized == op = "generateImprovedYaml"

\* one step of the synthesizer as its contract states it
ContractStep(working, s) ==
    IF s.improvedCode = None THEN working
    ELSE IF s.type = "formatting" /\ s.line # None
    THEN LET lines == split(working)
             k == s.line[1]
         IN  IF k \in 1..Len(lines)
             THEN join([lines EXCEPT ![k] = s.improvedCode[1]])
             ELSE working
    ELSE s.improvedCode[1]

RECURSIVE ContractFrom(_, _, _)
ContractFrom(working, suggestions, i) ==
    IF i > Len(suggestions) THEN working
    ELSE ContractFrom(ContractStep(working, suggestions[i]), suggestions, i + 1)

\* C11: for each suggestion with improvedCode, a formatting suggestion with a
\* line replaces that physical line of the working text (nothing when the line
\* is out of range), every other one, a formatting suggestion without a line
\* included, replaces the whole working text; a suggestion without
\* improvedCode changes nothing.
C11_SynthesizerContract ==
    Synthesized => lastImproved = ContractFrom(yamlText, synthSuggestions[1], 1)

\* a suggestion that replaces the whole document: not a formatting one, and
\* it carries improvedCode
WholeDocument(s) == s.type # "formatting" /\ s.improvedCode # None

\* the position of the last whole-document suggestion of a list, 0 when none
LastWholeDocument(suggestions) ==
    LET at == {i \in 1..Len(suggestions) : WholeDocument(suggestions[i])}
    IN  IF at = {} THEN 0 ELSE CHOOSE i \in at : \A j \in at : j <= i

\* the result of a list by last-write-wins: the text of the last
\* whole-document suggestion (the original when there is none), and on top of
\* it the suggestions that come after it, which are line fixes or carry no code
LastWriteWins(original, suggestions) ==
    LET j == LastWholeDocument(suggestions)
        base == IF j = 0 THEN original ELSE suggestions[j].improvedCode[1]
        after == SubSeq(suggestions, j + 1, Len(suggestions))
    IN  IF \A i \in 1..Len(after) : after[i].type # "formatting"
        THEN base
        ELSE generateImprovedYaml(base, after)

\* C12: the synthesizer's result is the improvedCode of the last
\* whole-document suggestion with only the line fixes listed after it applied
\* on top, whatever comes before it; analyzeYAML lists its formatting
\* suggestions first, so its improvedYaml is the improvedCode of the last
\* suggestion that is not a formatting one and carries improvedCode, when there
\* is one.
C12_LastWriteWins ==
    /\ Synthesized =>
           lastImproved = LastWriteWins(yamlText, synthSuggestions[1])
    /\ (Analyzed /\ LastWholeDocument(Suggestions) # 0) =>
           /\ \A i \in 1..Len(Suggestions) :
                  Suggestions[i].type = "formatting"
                      => i < LastWholeDocument(Suggestions)
           /\ lastAnalysis.improvedYaml =
                  Suggestions[LastWholeDocument(Suggestions)].improvedCode

\* a line fix and a naming fix are listed before the last whole-document
\* fix, and neither shows in the improved text
C12_Witness ==
    /\ Analyzed
    /\ LastWholeDocument(Suggestions) >= 3
    /\ Suggestions[1].type = "formatting"
    /\ \E i \in 1..Len(Suggestions) :
           /\ Suggestions[i].type = "naming"
           /\ i < LastWholeDocument(Suggestions)
           /\ Suggestions[i].improvedCode # lastAnalysis.improvedYaml
    /\ lastAnalysis.improvedYaml = Some(<<VersionLine, LF>> \o yamlText)

\* the characters of a text that are not white space
Visible(text) == SelectSeq(text, LAMBDA c : ~IsWs(c))

\* code is a replacement for line k of the text: one line, the line's visible
\* characters kept
ReplacesLine(code, text, k) ==
    /\ ~includes(code, LF)
    /\ k \in 1..Len(split(text))
    /\ Visible(code) = Visible(split(text)[k])

\* code is a replacement for the whole text: every line of the text is
\* there, after the lines the fix adds
ReplacesDocument(code, text) ==
    LET cl == split(code)
        tl == split(text)
    IN  /\ Len(cl) >= Len(tl)
        /\ SubSeq(cl, Len(cl) - Len(tl) + 1, Len(cl)) = tl

\* C13: every suggestion of analyzeYAML that carries improvedCode carries the
\* full replacement of its line when it has a line, and a replacement of the
\* whole document when it has none, never a fragment; applying one such
\* suggestion alone drops no line of the text.
C13_ImprovedCodeIsLineOrDocument ==
    Analyzed =>
        \A i \in 1..Len(Suggestions) :
            LET x == Suggestions[i] IN
            x.improvedCode # None =>
                /\ x.line # None => ReplacesLine(x.improvedCode[1], yamlText, x.line[1])
                /\ x.line = None => ReplacesDocument(x.improvedCode[1], yamlText)
                /\ Len(split(generateImprovedYaml(yamlText, <<x>>)))
                       >= Len(split(yamlText))

LargeConfigSuggestions ==
    SelectSeq(Suggestions, LAMBDA x : x.message = "Large configuration file detected")

\* C14: for a text that parses, with or without an advisory provider, the
\* large-configuration suggestion (best-practice, suggestion) is listed once
\* when the parsed record has more than 10 top-level keys, and not at all
\* when it has 10 or fewer.
C14_LargeConfiguration ==
    (Analyzed /\ ParserAccepts) =>
        LET parsed == parseOutcome.value
            large == isRecord(parsed) /\ Len(ObjectKeys(parsed)) > 10
        IN  /\ Len(LargeConfigSuggestions) = (IF large THEN 1 ELSE 0)
            /\ \A i \in 1..Len(LargeConfigSuggestions) :
                   /\ LargeConfigSuggestions[i].type = "best-practice"
                   /\ LargeConfigSuggestions[i].severity = "suggestion"

\* the rule-based suggestions for the text under analysis
RuleBased == getRuleBasedSuggestions(yamlText, parseOutcome.value, contentMarks)

\* C15: for a text that parses, analyzeYAML returns exactly the rule-based
\* suggestions when no provider is configured and when the provider faults,
\* and the rule-based suggestions first, unchanged, when the provider answers;
\* a provider fault does not make the result the one of an unparseable text
\* (confidenceScore 0).
C15_AdvisoryNeverAffectsRules ==
    (Analyzed /\ ParserAccepts) =>
        /\ Len(Suggestions) >= Len(RuleBased)
        /\ SubSeq(Suggestions, 1, Len(RuleBased)) = RuleBased
        /\ (~openaiApiKey \/ advisoryFault) =>
               /\ Suggestions = RuleBased
               /\ lastAnalysis.hasImprovements = (Len(RuleBased) > 0)
               /\ lastAnalysis.confidenceScore.num > 0

\* the provider faults on a text it had a finding for, and the rule-based
\* suggestions are returned
C15_Witness ==
    /\ Analyzed
    /\ ParserAccepts
    /\ openaiApiKey
    /\ advisoryFault
    /\ "secret" \in contentMarks
    /\ Len(Suggestions) > 0
    /\ Suggestions = RuleBased

----------------------------------------------------------------------------
(* Properties of the converter (specification SpecConverter) *)

Converted == op \in {"yamlToJSON", "jsonToYAML", "formatYAML", "minifyYAML"}

\* the input is a YAML text that parses to nothing
ParsesToNothing ==
    op # "jsonToYAML" /\ ParserAccepts /\ parseOutcome.value = Undefined

\* C16: every call of yamlToJSON, jsonToYAML, formatYAML and minifyYAML
\* returns a ConversionResult, whatever the parsers and the serializer do,
\* with result set exactly when success is true and error set exactly when it
\* is false; an empty input and an input that parses to nothing give
\* success = FALSE and an error.
C16_ConversionResult ==
    Converted =>
        /\ DOMAIN lastConversion = {"success", "result", "error"}
        /\ lastConversion.success \in BOOLEAN
        /\ lastConversion.success <=> lastConversion.result # None
        /\ ~lastConversion.success <=> lastConversion.error # None
        /\ (Blank(yamlText) \/ ParsesToNothing) =>
               /\ ~lastConversion.success
               /\ lastConversion.error # None

\* a text that is not blank and parses to nothing, handed to yamlToJSON
C16_Witness ==
    /\ op = "yamlToJSON"
    /\ ~Blank(yamlText)
    /\ ParsesToNothing
    /\ dumpOutcome.t = "returned"
    /\ ~lastConversion.success
    /\ lastConversion.result = None
    /\ lastConversion.error = Some(<<"YAML content is empty or invalid">>)

----------------------------------------------------------------------------
(* Properties of a sequence of calls (specification SpecSequence) *)

----------------------------------------------------------------------------
(* Properties that hold of every entry point *)

\* C18: for an empty or white-space-only text, no entry point (validateYAML,
\* analyzeYAML, yamlToJSON, formatYAML) invokes the YAML parser.
C18_BlankNeverParsed ==
    (op \in {"validateYAML", "analyzeYAML", "yamlToJSON", "formatYAML"}
        /\ Blank(yamlText)) => ~parserInvoked

\* String.toLowerCase on a fragment of a reason
ToLowerCase(fragment) ==
    CASE fragment = "Indent"  -> "indent"
      [] fragment = "MAPPING" -> "mapping"
      [] fragment = "Bad "    -> "bad "
      [] OTHER                -> fragment

\* a reason holds a keyword, upper or lower case
Mentions(reason, word) ==
    \E i \in 1..Len(reason) : ToLowerCase(reason[i]) = word

\* the keyword table, first matching row
TableSuggestion(reason) ==
    IF Mentions(reason, "indent")
        THEN "Check your indentation - YAML uses spaces, not tabs"
    ELSE IF Mentions(reason, "mapping")
        THEN "Check for missing colons (:) after keys"
    ELSE IF Mentions(reason, "sequence")
        THEN "Check your list syntax - items should start with \"- \""
    ELSE IF Mentions(reason, "quote") \/ Mentions(reason, "string")
        THEN "Check for unmatched quotes or special characters in strings"
    ELSE "Please check your YAML syntax"

\* C19: the suggestion of a syntax error is the first row of the keyword
\* table (indent, mapping, sequence, quote or string) whose keyword occurs in
\* the parser's reason, upper or lower case, and the default text when no row
\* matches.
C19_SuggestionByKeyword ==
    (Validated /\ ~Blank(yamlText) /\ ~ParserAccepts /\ parseOutcome.yamlException) =>
        lastValidation.errors[1].suggestion = TableSuggestion(parseOutcome.reason)

\* The column of an error lies in its line.  The parser's mark counts real
\* characters, and a line that holds a run of ordinary characters is as long
\* as the run makes it: for a syntax error the column is judged only on a
\* line without a run.  The linter's columns are computed on the text as it
\* is written here.
ColumnInside(e, l) ==
    \/ e.column \in 1..Len(l)
    \/ e.type = "syntax" /\ includes(l, "a")

\* an error's position is inside the text, or is (1,1)
InsideText(e) ==
    \/ e.line = 1 /\ e.column = 1
    \/ /\ e.line \in 1..Len(TextLines)
       /\ ColumnInside(e, TextLines[e.line])

\* C20: every error of every result of validateYAML has line >= 1 and
\* column >= 1 and points inside the text (line at most the number of
\* physical lines, column at most the length of that line), or is (1,1).
C20_PositionsInsideText ==
    Validated =>
        \A j \in 1..Len(lastValidation.errors) :
            /\ lastValidation.errors[j].line >= 1
            /\ lastValidation.errors[j].column >= 1
            /\ InsideText(lastValidation.errors[j])

----------------------------------------------------------------------------
(* C28 *)

StructureErrors(errors) == SelectSeq(errors, LAMBDA e : e.type = "structure")

\* C28: the root-level duplicate-key check reports nothing for a parsed
\* record; every error of a result for a text that parsed is a Format error,
\* and the only Structure error of any result is the empty-input error.
C28_DuplicateCheckSilent ==
    Validated =>
        /\ (ParserAccepts /\ isRecord(parseOutcome.value)
                => checkDuplicateKeys(parseOutcome.value, yamlText) = <<>>)
        /\ (~Blank(yamlText) /\ ParserAccepts
                => \A i \in 1..Len(lastValidation.errors) :
                       lastValidation.errors[i].type = "format")
        /\ StructureErrors(lastValidation.errors) # <<>>
                => /\ Blank(yamlText)
                   /\ lastValidation.errors = EmptyInputResult(yamlText).errors

\* a record of several keys was parsed from a text with a linter finding
C28_Witness ==
    /\ Validated
    /\ ParserAccepts
    /\ isRecord(parseOutcome.value)
    /\ Len(ObjectKeys(parseOutcome.value)) > 1
    /\ lastValidation.errors # <<>>

----------------------------------------------------------------------------
(* C29 *)

IsFormatting(x) == x.type = "formatting"

OnlyFormatting ==
    /\ Suggestions # <<>>
    /\ \A i \in 1..Len(Suggestions) : IsFormatting(Suggestions[i])

\* the Formatting suggestions of analysing `text` again, the parser answering `o`
FormattingAgain(text, o) ==
    SelectSeq(analyzeYAML(openaiApiKey, advisoryFault, text, o, contentMarks).suggestions,
              IsFormatting)

\* C29: when every suggestion of an analysis is a Formatting suggestion, the
\* improved text it returns has no tab, no trailing white space and no odd
\* indentation left: analysing it again gives no Formatting suggestion.
C29_FormattingFixedInOneStep ==
    Analyzed /\ OnlyFormatting /\ lastAnalysis.improvedYaml # None
        => LET improved == lastAnalysis.improvedYaml[1]
           IN  /\ formattingFrom(split(improved), 1) = <<>>
               /\ \A o \in PossibleOutcomes(improved) :
                      FormattingAgain(improved, o) = <<>>

----------------------------------------------------------------------------
(* C21 (specification SpecLinter) *)

Linted == op = "checkStructuralIssues"

\* the line an offset of the text lies on
LineOfOffset(text, at) ==
    1 + Len(SelectSeq(SubSeq(text, 1, at), LAMBDA c : c = LF))

EditedLine == LineOfOffset(yamlText, tabInsert[1].at)

FindingsOfLine(findings, k) == SelectSeq(findings, LAMBDA e : e.line = k)

\* C21: a tab inserted into a line that had no finding raises the number
\* of linter findings of the text by at least one and leaves the findings of
\* every other line as they were.
C21_TabMonotone ==
    Linted /\ FindingsOfLine(lastLint.before, EditedLine) = <<>>
        => /\ Len(lastLint.after) >= Len(lastLint.before) + 1
           /\ \A k \in 1..Len(split(yamlText)) :
                  k # EditedLine
                      => FindingsOfLine(lastLint.after, k)
                             = FindingsOfLine(lastLint.before, k)

\* a tab was put inside a clean line of a text whose other line has findings
C21_Witness ==
    /\ Linted
    /\ FindingsOfLine(lastLint.before, EditedLine) = <<>>
    /\ lastLint.before # <<>>
    /\ Len(split(yamlText)[EditedLine]) > 0
    /\ isRecord(tabInsert[1].outcome.value)

----------------------------------------------------------------------------
(* C23, C30 (specification SpecRoundTrip) *)

\* a value without the order of its keys
RECURSIVE Canon(_)
Canon(value) ==
    IF value.t = "record"
    THEN LET own == Properties(value)
         IN  [t |-> "record",
              members |->
                  [k \in {own[j].key : j \in 1..Len(own)} |->
                      Canon(own[CHOOSE j \in 1..Len(own) : own[j].key = k].val)]]
    ELSE IF value.t = "array"
    THEN [t |-> "array",
          items |-> [j \in 1..Len(Items(value)) |-> Canon(Items(value)[j])]]
    ELSE value

SameValue(v, w) == Canon(v) = Canon(w)

\* C23: with sortKeys not set, the value load returns for
\* jsonToYAML(yamlToJSON(text)) is the value the YAML text held, and it is the
\* value the JSON text held, up to key order.
C23_RoundTrip ==
    op = "load" /\ ~SortKeys(options[1])
        => /\ SameValue(reparsed.value, JSONparse(lastConversion.result[1]).value)
           /\ SameValue(reparsed.value, parseOutcome.value)

\* C30: yamlToJSON with sortKeys = true succeeds whenever it does with
\* sortKeys = false, and its JSON text holds the same value.
C30_SortKeysOnlyOrders ==
    op = "yamlToJSON" /\ SortKeys(options[1])
        => LET unsortedOpts == [options[1] EXCEPT !.sortKeys = Some(FALSE)]
               unsorted ==
                   yamlToJSON(yamlText, unsortedOpts, parseOutcome,
                              Stringified(parseOutcome.value, unsortedOpts))
           IN  unsorted.success
                   => /\ lastConversion.success
                      /\ SameValue(JSONparse(lastConversion.result[1]).value,
                                   JSONparse(unsorted.result[1]).value)

----------------------------------------------------------------------------
(* C24 - C27 (specification SpecComponents) *)

Enhanced == component.name = "EnhancedYAMLValidator"

\* C24: in an idle gap after content changes the timers invoke the engine at
\* most once, and no timer fires for a content that has been superseded.
C24_DebounceCoalesces ==
    Enhanced => observed.invocations <= 1 /\ ~observed.superseded

\* C25: performValidation invokes analyzeYAML only with enableAISuggestions
\* on and for a content whose validation result is valid.
C25_AnalysisOnlyWhenEnabledAndValid ==
    Enhanced /\ awaiting # None
        => /\ component.settings.enableAISuggestions
           /\ awaiting[1].validation.isValid

\* no timer is pending and no validation is under way
Quiescent ==
    timers = <<>> /\ awaiting = None /\ ~component.isValidating
        /\ ~component.isAnalyzing

\* C26: when nothing is pending, a displayed validationResult or aiAnalysis
\* was computed from the current content, and both are null for an empty
\* content.
C26_ResultsCurrent ==
    Enhanced /\ Quiescent
        => /\ component.validationResult # None
                  => component.validationResult[1].originalYaml
                         = component.yamlContent
           /\ component.aiAnalysis # None
                  => observed.analysisFor = Some(component.yamlContent)
           /\ component.yamlContent = <<>>
                  => component.validationResult = None
                         /\ component.aiAnalysis = None

Busy ==
    \/ "isValidating" \in DOMAIN component /\ component.isValidating
    \/ "isAnalyzing" \in DOMAIN component /\ component.isAnalyzing

\* C27: after every started validation, in each of the three components and
\* whether the parser or the analysis fails or not, isValidating and
\* isAnalyzing become false again.
C27_BusyFlagsReturn == Busy ~> ~Busy

\* a validation that went through a rejected analysis has ended
C27_Witness ==
    /\ Enhanced
    /\ ~Busy
    /\ observed.analysisFor # None
    /\ component.validationResult # None
    /\ component.aiAnalysis = None

====
